---- MODULE Spec2Model ----
(***************************************************************************)
(* State-machine model of the match-and-apply orchestration core:          *)
(*   - AutoApplyAgent   (backend/agents/autoapply_agent.py)                *)
(*   - TrackerAgent     (backend/agents/tracker_agent.py)                  *)
(*   - SupervisorAgent  (backend/agents/supervisor_agent.py)               *)
(* Coroutines are modelled as processes whose atomic steps are the code    *)
(* between two suspension points (awaits on external collaborators and     *)
(* sleeps).  The database helpers are synchronous inside their coroutine   *)
(* and therefore belong to the step that calls them.                       *)
(***************************************************************************)
EXTENDS Integers, Sequences, FiniteSets, TLC

(***************************************************************************)
(* Bounds of the model                                                     *)
(***************************************************************************)
\* length of the job_ids list handed to one auto_apply_to_jobs call
MaxJobIds == 2

\* the same length when two callers run concurrently
MaxJobIdsConc == 1

\* the configurable daily cap MAX_APPLICATIONS_PER_DAY (default 10)
max_applications_per_day == 1

(***************************************************************************)
(* AutoApplyAgent: constants of __init__                                   *)
(***************************************************************************)
max_retries == 3

\* success_rate_threshold = 0.3, kept as the fraction 3/10
success_rate_threshold_num == 3
success_rate_threshold_den == 10

fallback_strategies == <<"http_form", "email", "manual">>

\* keys of method_stats, which are also the keys of application_handlers
Methods == {"linkedin", "indeed", "internshala", "email", "form", "http_form"}

application_handlers == Methods

PlatformSources == {"linkedin", "indeed", "internshala"}

\* the callers of auto_apply_to_jobs that share one agent instance
Callers == {"t1", "t2"}

(***************************************************************************)
(* Job postings.  An apply_url is represented by the literal text and the  *)
(* substrings the agent looks for in it.                                   *)
(***************************************************************************)
UrlSubstrings(url) ==
    CASE url = "" -> {}
      [] url = "mailto:jobs@remoteok.com" -> {"mailto:", "remoteok"}
      [] url = "mailto:hr@acme.com" -> {"mailto:"}
      [] url = "https://remoteok.com/l/1" -> {"remoteok"}
      [] url = "https://linkedin.com/jobs/1" -> {"linkedin"}
      [] OTHER -> {}

Contains(url, needle) == needle \in UrlSubstrings(url)

NoJob == [id |-> 0, source |-> "none", apply_url |-> ""]

\* the postings held by the store; every other id is "not found"
JobTable ==
    {[id |-> 1, source |-> "remoteok", apply_url |-> "https://remoteok.com/l/1"],
     [id |-> 2, source |-> "unknown", apply_url |-> ""],
     [id |-> 3, source |-> "remoteok", apply_url |-> "mailto:jobs@remoteok.com"],
     [id |-> 4, source |-> "linkedin", apply_url |-> "https://linkedin.com/jobs/1"]}

JobIds == {j.id : j \in JobTable} \cup {0}

\* _get_job_details
GetJobDetails(job_id) ==
    IF \E j \in JobTable : j.id = job_id
    THEN CHOOSE j \in JobTable : j.id = job_id
    ELSE NoJob

(***************************************************************************)
(* MethodSelector                                                          *)
(***************************************************************************)
ZeroStats == [m \in Methods |-> [attempts |-> 0, successes |-> 0]]

\* _get_method_success_rate as a fraction <<numerator, denominator>>
Rate(stats, m) ==
    IF m \notin DOMAIN stats \/ stats[m].attempts = 0
    THEN <<1, 1>>
    ELSE <<stats[m].successes, stats[m].attempts>>

RateGreater(stats, m1, m2) ==
    Rate(stats, m1)[1] * Rate(stats, m2)[2] > Rate(stats, m2)[1] * Rate(stats, m1)[2]

\* rate > self.success_rate_threshold
AboveThreshold(stats, m) ==
    Rate(stats, m)[1] * success_rate_threshold_den
        > success_rate_threshold_num * Rate(stats, m)[2]

\* rate < success_rate_threshold
BelowFloor(stats, m) ==
    Rate(stats, m)[1] * success_rate_threshold_den
        < success_rate_threshold_num * Rate(stats, m)[2]

\* available_methods in the HTTP-session branch, in append order
AvailableHttp(job) ==
    LET a1 == IF Contains(job.apply_url, "mailto:") THEN <<"email">> ELSE <<>>
        a2 == IF \E p \in {"remoteok", "arbeitnow", "himalayas"} :
                     Contains(job.apply_url, p)
              THEN Append(a1, "http_form") ELSE a1
    IN IF a2 = <<>> THEN <<"http_form">> ELSE a2

\* available_methods in the browser branch, in append order
AvailableBrowser(job, stats) ==
    LET a1 == IF job.source \in PlatformSources /\ AboveThreshold(stats, job.source)
              THEN <<job.source>> ELSE <<>>
    IN IF Contains(job.apply_url, "mailto:") THEN Append(a1, "email")
       ELSE IF job.apply_url # "" THEN Append(a1, "form")
       ELSE a1

\* sort(key=rate, reverse=True)[0]: the sort is stable, so the first of the
\* entries with the greatest rate
BestMethod(avail, stats) ==
    LET best == CHOOSE i \in 1..Len(avail) :
                   /\ \A j \in 1..Len(avail) : ~RateGreater(stats, avail[j], avail[i])
                   /\ \A j \in 1..(i - 1) : RateGreater(stats, avail[i], avail[j])
    IN avail[best]

determine_application_method(job, br, stats) ==
    LET avail == IF br = "http_session" THEN AvailableHttp(job)
                 ELSE AvailableBrowser(job, stats)
    IN IF avail # <<>> THEN BestMethod(avail, stats) ELSE "manual"

is_method_applicable(job, method, br) ==
    CASE method = "email" -> Contains(job.apply_url, "mailto:")
      [] method = "http_form" ->
            job.apply_url # "" /\ ~Contains(job.apply_url, "mailto:")
      [] method \in PlatformSources ->
            job.source = method \/ Contains(job.apply_url, method)
      [] method = "form" -> job.apply_url # "" /\ br # "http_session"
      [] method = "manual" -> TRUE
      [] OTHER -> FALSE

RECURSIVE AddFallbacks(_, _, _, _)
AddFallbacks(plan, k, job, br) ==
    IF k > Len(fallback_strategies) THEN plan
    ELSE LET f == fallback_strategies[k]
             inPlan == \E x \in 1..Len(plan) : plan[x] = f
         IN IF f # plan[1] /\ ~inPlan /\ is_method_applicable(job, f, br)
            THEN AddFallbacks(Append(plan, f), k + 1, job, br)
            ELSE AddFallbacks(plan, k + 1, job, br)

\* methods_to_try of _apply_to_job
MethodsToTry(job, br, stats) ==
    AddFallbacks(<<determine_application_method(job, br, stats)>>, 1, job, br)


(***************************************************************************)
(* Delivery channels (external collaborators).  A handler returns          *)
(* success, returns success = False, or raises.  The guards are the early  *)
(* returns at the top of each handler.                                     *)
(***************************************************************************)
HandlerMaySucceed(method, job) ==
    CASE method = "http_form" ->
            job.apply_url # "" /\ ~Contains(job.apply_url, "mailto:")
      [] method = "email" -> Contains(job.apply_url, "mailto:")
      [] method \in {"linkedin", "indeed"} -> job.apply_url # ""
      [] method = "internshala" -> FALSE
      [] OTHER -> TRUE

HandlerOutcomes(method, job) ==
    IF HandlerMaySucceed(method, job)
    THEN {"success", "failure", "raise"}
    ELSE {"failure", "raise"}

(***************************************************************************)
(* State                                                                   *)
(***************************************************************************)
VARIABLES
    \* AutoApplyAgent fields
    browser,             \* "none" | "http_session" | "playwright"
    agent_started,       \* initialize() / _init_playwright() has run
    applications_today,
    method_stats,
    \* the job_applications table (one user): sequence of records
    job_applications,
    \* one auto_apply_to_jobs coroutine per caller
    pc,                  \* position of the coroutine
    remaining,           \* job ids of job_ids not yet iterated
    job,                 \* the posting of the current apply pass
    methods_to_try,
    midx,                \* index of the current method in methods_to_try
    attempt,             \* loop variable of range(max_retries)
    last_error,
    application_result,  \* what _apply_to_job returned for the current pass
    ret,                 \* how auto_apply_to_jobs returned
    \* history of the current apply pass
    tries,               \* handler invocations per channel
    stats0,              \* method_stats when the plan was built
    recorded,            \* records written for the pass
    record_failed,       \* _record_application of the pass hit a store error
    today_at_call,       \* applications_today when _apply_to_job was called
    \* TrackerAgent and the application record it tracks
    now,                 \* datetime.utcnow(), in days
    app,                 \* the tracked job_applications row
    last_op,             \* the tracker operation that ran last
    warned,              \* that operation logged "Invalid status transition"
    follow_ups_needed,   \* follow_ups_needed returned by the last scan
    \* SupervisorAgent
    workflow_running,
    auto_apply_enabled,  \* config['auto_apply_enabled']
    wpc,                 \* position of each trigger_job_search coroutine
    phases_run,          \* phases the coroutine has executed
    wresult,             \* what the coroutine returned
    scraping_result,     \* what _execute_scraping_phase returned to it
    auto_mode_enabled,
    loop_pc,             \* position of each _auto_mode_loop task
    \* SimpleSupervisorAgent
    is_auto_mode,
    auto_task,           \* position of the _auto_search_loop task
    manual_search,       \* position of a trigger_job_search call of a route
    cache_valid,         \* search_results_cache holds a fresh entry
    \* EnhancedSupervisorAgent
    is_running,
    epc,                 \* position of each thread in _run_workflow
    \* the adaptive learner of SupervisorAgent and the scorer
    scoring_threshold,   \* config['scoring_threshold'], in hundredths
    scoring_weights,     \* learning_data['scoring_weights'], scaled
    outcome_analytics,   \* learning_data['outcome_analytics'][user_id]['outcomes']
    threshold_history,   \* learning_data['threshold_history']
    activity_log,        \* system log entries about adjustments
    insights,            \* insights returned by the last analyze_user_outcomes
    scorer_weights,      \* JobScoringAgent.weights
    last_pass,           \* weights and threshold the last scoring pass used
    learner_steps,       \* learner operations so far
    last_learner_op,     \* the learner operation that ran last
    retuned,             \* weights changed by the learner since the last pass
    \* JobScoringAgent.score_candidate
    section_texts,       \* which of the section texts of the last call were empty
    section_scores,      \* section_scores of the last ScoringResult, in percent
    weighted_score,      \* the raw weighted score of the last call, scaled
    total_score,         \* total_score of the last ScoringResult, scaled
    classification,
    prev_weighted_score, \* the raw weighted score of the call before it
    prev_total_score,    \* and its total_score
    \* EnhancedScraperAgent.scrape_jobs
    scrape_pc,           \* position of the scrape_jobs coroutine
    all_jobs,            \* postings collected from the sources so far
    max_results,
    returned_jobs,       \* the returned list, as positions in all_jobs
    \* the statuses tracked applications have gone through by standard updates
    lifecycle,
    search_results_cache, \* SimpleSupervisorAgent.search_results_cache: cache key -> result
    search_response,     \* what the last trigger_job_search call returned
    failed_tasks,        \* retry_config['failed_tasks']: task id -> retry count
    retry_pc,            \* where each retry_failed_task call stands
    retry_count,         \* the local retry_count of each call
    retry_result,        \* what each call returned last
    task_executions,     \* how often the task of a task id was executed
    task_succeeded       \* whether an execution of the task id has succeeded

scorerVars == <<section_texts, section_scores, weighted_score, total_score,
                classification, prev_weighted_score, prev_total_score>>

applyVars == <<browser, agent_started, applications_today, method_stats,
               job_applications, pc, remaining, job, methods_to_try, midx,
               attempt, last_error, application_result, ret, tries, stats0,
               recorded, record_failed, today_at_call>>

trackerVars == <<now, app, last_op, warned, follow_ups_needed>>

supervisorVars == <<workflow_running, auto_apply_enabled, wpc, phases_run, wresult,
                    scraping_result, auto_mode_enabled, loop_pc>>

simpleVars == <<is_auto_mode, auto_task, manual_search, cache_valid>>

enhancedVars == <<is_running, epc>>

learnerVars == <<scoring_threshold, scoring_weights, outcome_analytics,
                 threshold_history, activity_log, insights, scorer_weights,
                 last_pass, learner_steps, last_learner_op, retuned>>

scraperVars == <<scrape_pc, all_jobs, max_results, returned_jobs>>

lifecycleVars == <<lifecycle>>

searchCacheVars == <<search_results_cache, search_response>>

retryVars == <<failed_tasks, retry_pc, retry_count, retry_result,
               task_executions, task_succeeded>>

\* a step of the apply agent leaves the other agents alone
ApplyOnly ==
    UNCHANGED <<trackerVars, supervisorVars, simpleVars, enhancedVars, learnerVars,
               scorerVars,
               scraperVars,
               lifecycleVars,
               searchCacheVars,
               retryVars>>

NoError == [method |-> "none", attempt |-> 0, kind |-> "none"]

NoResult == [kind |-> "none", success |-> FALSE, method_tried |-> "none",
             attempts_made |-> 0, methods_tried |-> <<>>, error |-> NoError,
             total_attempts |-> 0]

NoTries == [m \in Methods |-> 0]

InitApply ==
    /\ browser = "none"
    /\ agent_started = FALSE
    /\ applications_today = 0
    /\ method_stats = ZeroStats
    /\ job_applications = <<>>
    /\ pc = [c \in Callers |-> "idle"]
    /\ remaining = [c \in Callers |-> 0]
    /\ job = [c \in Callers |-> NoJob]
    /\ methods_to_try = [c \in Callers |-> <<>>]
    /\ midx = [c \in Callers |-> 0]
    /\ attempt = [c \in Callers |-> 0]
    /\ last_error = [c \in Callers |-> NoError]
    /\ application_result = [c \in Callers |-> NoResult]
    /\ ret = [c \in Callers |-> "none"]
    /\ tries = [c \in Callers |-> NoTries]
    /\ stats0 = [c \in Callers |-> ZeroStats]
    /\ recorded = [c \in Callers |-> 0]
    /\ record_failed = [c \in Callers |-> FALSE]
    /\ today_at_call = [c \in Callers |-> 0]

\* _get_applications_today: the auto-applied records of today
GetApplicationsToday == Len(job_applications)

\* AutoApplyAgent.initialize: opens the HTTP session and loads today's count;
\* on any failure the agent degrades to browser = None
Initialize ==
    /\ ApplyOnly
    /\ ~agent_started
    /\ agent_started' = TRUE
    /\ \/ /\ browser' = "http_session"
          /\ applications_today' = GetApplicationsToday
       \/ /\ browser' = "none"
          /\ UNCHANGED applications_today
    /\ UNCHANGED <<method_stats, job_applications, pc, remaining, job,
                   methods_to_try, midx, attempt, last_error,
                   application_result, ret, tries, stats0, recorded,
                   record_failed, today_at_call>>

\* AutoApplyAgent._init_playwright: launches a browser, or leaves None
InitPlaywright ==
    /\ ApplyOnly
    /\ ~agent_started
    /\ agent_started' = TRUE
    /\ browser' \in {"playwright", "none"}
    /\ UNCHANGED <<applications_today, method_stats, job_applications, pc,
                   remaining, job, methods_to_try, midx, attempt, last_error,
                   application_result, ret, tries, stats0, recorded,
                   record_failed, today_at_call>>


(***************************************************************************)
(* auto_apply_to_jobs / _apply_to_job, one coroutine per caller            *)
(***************************************************************************)
\* _check_existing_application: a record of the user for the job exists;
\* a failing lookup answers False
CheckExistingApplication(job_id, lookup_ok) ==
    lookup_ok /\ \E k \in 1..Len(job_applications) :
                     job_applications[k].job_id = job_id

\* a retry loop that runs once more than max_retries
HasRetryLeft_OneMore(a) == a < max_retries

\* for attempt in range(max_retries): another try follows try number attempt
HasRetryLeft(a) == a < max_retries - 1

\* an attempt that is not counted
CountAttempt_Skipped(stats, m) == stats

\* self.method_stats[method]['attempts'] += 1
CountAttempt(stats, m) == [stats EXCEPT ![m].attempts = @ + 1]

\* a success that is not counted
CountSuccess_Dropped(stats, m) == stats

\* self.method_stats[method]['successes'] += 1
CountSuccess(stats, m) == [stats EXCEPT ![m].successes = @ + 1]

\* the first index >= k of a method that has a handler
\* ("if method not in self.application_handlers: continue")
NextHandlerIndex(plan, k) ==
    IF \E x \in k..Len(plan) : plan[x] \in application_handlers
    THEN CHOOSE x \in k..Len(plan) :
            /\ plan[x] \in application_handlers
            /\ \A y \in k..(x - 1) : plan[y] \notin application_handlers
    ELSE Len(plan) + 1

\* the result returned when every method failed
AllFailedResult(plan, err) ==
    [kind |-> "failure", success |-> FALSE, method_tried |-> "none",
     attempts_made |-> 0, methods_tried |-> plan, error |-> err,
     total_attempts |-> max_retries * Len(plan)]

SuccessResult(m, a) ==
    [kind |-> "success", success |-> TRUE, method_tried |-> m,
     attempts_made |-> a + 1, methods_tried |-> <<>>, error |-> NoError,
     total_attempts |-> 0]

\* the outer "for method in methods_to_try" from index k on: either the next
\* method with a handler is started (attempts += 1) and its first try is
\* awaited, or the pass returns the failure result, which auto_apply_to_jobs
\* does not record
StartMethodFrom(c, plan, k, err) ==
    LET n == NextHandlerIndex(plan, k)
    IN IF n <= Len(plan)
       THEN /\ method_stats' = CountAttempt(method_stats, plan[n])
            /\ midx' = [midx EXCEPT ![c] = n]
            /\ attempt' = [attempt EXCEPT ![c] = 0]
            /\ pc' = [pc EXCEPT ![c] = "try"]
            /\ UNCHANGED application_result
       ELSE /\ application_result' =
                   [application_result EXCEPT ![c] = AllFailedResult(plan, err)]
            /\ pc' = [pc EXCEPT ![c] = "delay"]
            /\ UNCHANGED <<method_stats, midx, attempt>>

\* entry of auto_apply_to_jobs up to the job loop
Invoke(c, max_len) ==
    /\ ApplyOnly
    /\ pc[c] = "idle"
    /\ IF browser = "none"
       THEN /\ ret' = [ret EXCEPT ![c] = "unavailable"]
            /\ pc' = [pc EXCEPT ![c] = "done"]
            /\ UNCHANGED remaining
       ELSE IF applications_today >= max_applications_per_day
       THEN /\ ret' = [ret EXCEPT ![c] = "limit"]
            /\ pc' = [pc EXCEPT ![c] = "done"]
            /\ UNCHANGED remaining
       ELSE \/ /\ ret' = [ret EXCEPT ![c] = "raised"]
               /\ pc' = [pc EXCEPT ![c] = "done"]
               /\ UNCHANGED remaining
            \/ /\ \E n \in 1..max_len : remaining' = [remaining EXCEPT ![c] = n]
               /\ pc' = [pc EXCEPT ![c] = "loop"]
               /\ UNCHANGED ret
    /\ UNCHANGED <<browser, agent_started, applications_today, method_stats,
                   job_applications, job, methods_to_try, midx, attempt,
                   last_error, application_result, tries, stats0, recorded,
                   record_failed, today_at_call>>

\* top of one loop iteration: cap check, job lookup, duplicate check, and the
\* call of _apply_to_job up to its first await (the cover letter)
LoopIteration(c) ==
    /\ ApplyOnly
    /\ pc[c] = "loop"
    /\ IF remaining[c] = 0 \/ applications_today >= max_applications_per_day
       THEN /\ pc' = [pc EXCEPT ![c] = "done"]
            /\ ret' = [ret EXCEPT ![c] = "completed"]
            /\ UNCHANGED <<remaining, job, tries, recorded, record_failed,
                           last_error, application_result, methods_to_try,
                           today_at_call>>
       ELSE \E id \in JobIds, lookup_ok \in BOOLEAN :
            /\ remaining' = [remaining EXCEPT ![c] = @ - 1]
            /\ UNCHANGED ret
            /\ IF GetJobDetails(id) = NoJob
                  \/ CheckExistingApplication(id, lookup_ok)
               THEN UNCHANGED <<pc, job, tries, recorded, record_failed,
                                last_error, application_result, methods_to_try,
                                today_at_call>>
               ELSE /\ job' = [job EXCEPT ![c] = GetJobDetails(id)]
                    /\ today_at_call' =
                           [today_at_call EXCEPT ![c] = applications_today]
                    /\ pc' = [pc EXCEPT ![c] = "cover_letter"]
                    /\ UNCHANGED <<tries, recorded, record_failed, last_error,
                                   application_result, methods_to_try>>
    /\ UNCHANGED <<browser, agent_started, applications_today, method_stats,
                   job_applications, midx, attempt, stats0>>

\* generate_cover_letter returns: the plan is built and the first method begun
CoverLetterDone(c) ==
    /\ ApplyOnly
    /\ pc[c] = "cover_letter"
    /\ LET plan == MethodsToTry(job[c], browser, method_stats)
       IN /\ methods_to_try' = [methods_to_try EXCEPT ![c] = plan]
          /\ stats0' = [stats0 EXCEPT ![c] = method_stats]
          /\ StartMethodFrom(c, plan, 1, NoError)
    /\ UNCHANGED <<browser, agent_started, applications_today,
                   job_applications, remaining, job, last_error, ret, tries,
                   recorded, record_failed, today_at_call>>

\* generate_cover_letter raises: the loop's except appends an error result
\* and goes on with the next job id
CoverLetterRaises(c) ==
    /\ ApplyOnly
    /\ pc[c] = "cover_letter"
    /\ job' = [job EXCEPT ![c] = NoJob]
    /\ today_at_call' = [today_at_call EXCEPT ![c] = 0]
    /\ pc' = [pc EXCEPT ![c] = "loop"]
    /\ UNCHANGED <<browser, agent_started, applications_today, method_stats,
                   job_applications, remaining, methods_to_try, midx,
                   attempt, last_error, application_result, ret, tries, stats0,
                   recorded, record_failed>>

\* _record_application followed by applications_today += 1; a store error
\* inside _record_application is logged and swallowed
RecordApplication(c, m, store_ok) ==
    /\ applications_today' = applications_today + 1
    /\ IF store_ok
       THEN /\ job_applications' =
                   Append(job_applications,
                          [job_id |-> job[c].id, status |-> "applied",
                           method |-> m])
            /\ recorded' = [recorded EXCEPT ![c] = @ + 1]
            /\ UNCHANGED record_failed
       ELSE /\ record_failed' = [record_failed EXCEPT ![c] = TRUE]
            /\ UNCHANGED <<job_applications, recorded>>

\* one awaited handler call returns
Try(c) ==
    /\ ApplyOnly
    /\ pc[c] = "try"
    /\ LET plan == methods_to_try[c]
           m == plan[midx[c]]
       IN \E o \in HandlerOutcomes(m, job[c]), store_ok \in BOOLEAN :
          /\ tries' = [tries EXCEPT ![c][m] = @ + 1]
          /\ IF o = "success"
             THEN /\ method_stats' = CountSuccess(method_stats, m)
                  /\ application_result' =
                         [application_result EXCEPT ![c] = SuccessResult(m, attempt[c])]
                  /\ RecordApplication(c, m, store_ok)
                  /\ pc' = [pc EXCEPT ![c] = "delay"]
                  /\ UNCHANGED <<last_error, midx, attempt>>
             ELSE /\ store_ok
                  /\ last_error' = [last_error EXCEPT ![c] =
                         [method |-> m, attempt |-> attempt[c] + 1, kind |-> o]]
                  /\ UNCHANGED <<applications_today, job_applications, recorded,
                                 record_failed>>
                  /\ IF HasRetryLeft(attempt[c])
                     THEN /\ pc' = [pc EXCEPT ![c] = "backoff"]
                          /\ UNCHANGED <<method_stats, midx, attempt,
                                         application_result>>
                     ELSE StartMethodFrom(c, plan, midx[c] + 1, last_error'[c])
    /\ UNCHANGED <<browser, agent_started, remaining, job, methods_to_try,
                   ret, stats0, today_at_call>>

\* the exponential-backoff sleep between two tries ends
Backoff(c) ==
    /\ ApplyOnly
    /\ pc[c] = "backoff"
    /\ attempt' = [attempt EXCEPT ![c] = @ + 1]
    /\ pc' = [pc EXCEPT ![c] = "try"]
    /\ UNCHANGED <<browser, agent_started, applications_today, method_stats,
                   job_applications, remaining, job, methods_to_try, midx,
                   last_error, application_result, ret, tries, stats0,
                   recorded, record_failed, today_at_call>>

\* the 30-60 s delay between two jobs ends; the locals of the finished pass
\* go out of scope
Delay(c) ==
    /\ ApplyOnly
    /\ pc[c] = "delay"
    /\ pc' = [pc EXCEPT ![c] = "loop"]
    /\ job' = [job EXCEPT ![c] = NoJob]
    /\ methods_to_try' = [methods_to_try EXCEPT ![c] = <<>>]
    /\ midx' = [midx EXCEPT ![c] = 0]
    /\ attempt' = [attempt EXCEPT ![c] = 0]
    /\ last_error' = [last_error EXCEPT ![c] = NoError]
    /\ application_result' = [application_result EXCEPT ![c] = NoResult]
    /\ tries' = [tries EXCEPT ![c] = NoTries]
    /\ stats0' = [stats0 EXCEPT ![c] = ZeroStats]
    /\ recorded' = [recorded EXCEPT ![c] = 0]
    /\ record_failed' = [record_failed EXCEPT ![c] = FALSE]
    /\ today_at_call' = [today_at_call EXCEPT ![c] = 0]
    /\ UNCHANGED <<browser, agent_started, applications_today, method_stats,
                   job_applications, remaining, ret>>

CallerStep(c, max_len) ==
    \/ Invoke(c, max_len)
    \/ LoopIteration(c)
    \/ CoverLetterDone(c)
    \/ CoverLetterRaises(c)
    \/ Try(c)
    \/ Backoff(c)
    \/ Delay(c)

\* one caller at a time
NextApply ==
    \/ Initialize
    \/ InitPlaywright
    \/ CallerStep("t1", MaxJobIds)

\* two callers sharing the agent
NextApplyConc ==
    \/ Initialize
    \/ InitPlaywright
    \/ \E c \in Callers : CallerStep(c, MaxJobIdsConc)

(***************************************************************************)
(* TrackerAgent                                                            *)
(***************************************************************************)
\* latest day the clock reaches
MaxDay == 22

first_follow_up == 7
second_follow_up == 14
final_follow_up == 21

\* an interview follow-up is due two days after the interview
interview_follow_up_days == 2

\* status_transitions of __init__
\* a table in which a rejected application can be applied for again
status_transitions_Reopened ==
    [s \in {"applied", "interview", "second_interview", "final_interview",
            "accepted", "rejected", "withdrawn", "offer_accepted",
            "offer_declined"} |->
        CASE s = "applied" -> {"interview", "rejected", "withdrawn"}
          [] s = "interview" -> {"accepted", "rejected", "second_interview"}
          [] s = "second_interview" -> {"accepted", "rejected", "final_interview"}
          [] s = "final_interview" -> {"accepted", "rejected"}
          [] s = "accepted" -> {"offer_accepted", "offer_declined"}
          [] s = "rejected" -> {"applied"}
          [] OTHER -> {}]

status_transitions ==
    [s \in {"applied", "interview", "second_interview", "final_interview",
            "accepted", "rejected", "withdrawn", "offer_accepted",
            "offer_declined"} |->
        CASE s = "applied" -> {"interview", "rejected", "withdrawn"}
          [] s = "interview" -> {"accepted", "rejected", "second_interview"}
          [] s = "second_interview" -> {"accepted", "rejected", "final_interview"}
          [] s = "final_interview" -> {"accepted", "rejected"}
          [] s = "accepted" -> {"offer_accepted", "offer_declined"}
          [] OTHER -> {}]

\* the statuses a request can carry: those of the table and "failed", the
\* status _record_application writes for an unsuccessful result
Statuses == DOMAIN status_transitions \cup {"failed"}

TerminalStatuses == {"rejected", "withdrawn", "offer_accepted", "offer_declined"}

NoDate == -1

NoApp == [exists |-> FALSE, status |-> "none", applied_at |-> NoDate,
          follow_up_date |-> NoDate]

\* _is_valid_status_transition
is_valid_status_transition(current_status, new_status) ==
    IF current_status \notin DOMAIN status_transitions
    THEN TRUE
    ELSE new_status \in status_transitions[current_status]

\* _needs_follow_up
needs_follow_up(application, today) ==
    IF application.status \in TerminalStatuses THEN FALSE
    ELSE application.follow_up_date # NoDate /\ application.follow_up_date <= today

\* next_follow_up of _schedule_follow_up (NoDate for None)
next_follow_up(application, today) ==
    LET days_since_application == today - application.applied_at
    IN IF days_since_application <= first_follow_up
       THEN today + (second_follow_up - days_since_application)
       ELSE IF days_since_application <= second_follow_up
       THEN today + (final_follow_up - days_since_application)
       ELSE NoDate

\* _schedule_follow_up: the row is updated only when a date was computed
schedule_follow_up(application, today) ==
    IF next_follow_up(application, today) # NoDate
    THEN [application EXCEPT !.follow_up_date = next_follow_up(application, today)]
    ELSE application

\* follow_up_date of update_application_status
UpdatedFollowUp(application, new_status, interview_date, today) ==
    IF new_status = "applied" THEN today + first_follow_up
    ELSE IF new_status = "interview"
    THEN (IF interview_date # NoDate
          THEN interview_date + interview_follow_up_days ELSE NoDate)
    ELSE application.follow_up_date

TrackerOnly ==
    UNCHANGED <<applyVars, supervisorVars, simpleVars, enhancedVars, learnerVars,
               scorerVars,
               scraperVars,
               lifecycleVars,
               searchCacheVars,
               retryVars>>

\* The three accessors below are "would query the database" placeholders in
\* the source (they return None / [] and only log); they are given the
\* behaviour of a reliable store of application records.
\* _get_application_by_id over the application store (NoApp for None)
get_application_by_id == app

\* _get_user_applications over the application store
get_user_applications == IF app.exists THEN {app} ELSE {}

\* _update_application_in_db: the row takes the updated fields
update_application_in_db(row) == app' = row

InitTracker ==
    /\ now = 0
    /\ app = NoApp
    /\ last_op = "none"
    /\ warned = FALSE
    /\ follow_ups_needed = 0

\* a day passes
Tick ==
    /\ TrackerOnly
    /\ now < MaxDay
    /\ now' = now + 1
    /\ last_op' = "tick"
    /\ UNCHANGED <<app, warned, follow_ups_needed>>

\* a row is inserted by _record_application (status "applied") or by the
\* create_application route (the status of the request); neither sets
\* follow_up_date
CreateApplication(status) ==
    /\ TrackerOnly
    /\ ~app.exists
    /\ app' = [exists |-> TRUE, status |-> status, applied_at |-> now,
               follow_up_date |-> NoDate]
    /\ last_op' = "create"
    /\ warned' = FALSE
    /\ UNCHANGED <<now, follow_ups_needed>>

\* update_application_status; an unknown application id raises inside the
\* try and the call returns False
UpdateApplicationStatus(new_status, interview_date) ==
    /\ TrackerOnly
    /\ last_op' = "update"
    /\ LET application == get_application_by_id
       IN IF ~application.exists
          THEN /\ warned' = FALSE
               /\ UNCHANGED app
          ELSE /\ warned' = ~is_valid_status_transition(application.status, new_status)
               /\ update_application_in_db(
                      [application EXCEPT
                         !.status = new_status,
                         !.follow_up_date =
                             UpdatedFollowUp(application, new_status,
                                             interview_date, now)])
    /\ UNCHANGED <<now, follow_ups_needed>>

\* track_applications over the rows of the user
TrackApplications ==
    /\ TrackerOnly
    /\ last_op' = "track"
    /\ warned' = FALSE
    /\ LET applications == get_user_applications
           due == {a \in applications : needs_follow_up(a, now)}
       IN /\ follow_ups_needed' = Cardinality(due)
          /\ IF due = {}
             THEN UNCHANGED app
             ELSE \E a \in due : update_application_in_db(schedule_follow_up(a, now))
    /\ UNCHANGED now

\* the interview date of a request: absent, or the next day
InterviewDates == {NoDate, now + 1}

UpdateRequest == \E st \in Statuses, d \in InterviewDates : UpdateApplicationStatus(st, d)

CreateRequest == \E st \in Statuses : CreateApplication(st)

NextTracker ==
    \/ Tick
    \/ CreateRequest
    \/ UpdateRequest
    \/ TrackApplications

(***************************************************************************)
(* SupervisorAgent.trigger_job_search                                      *)
(***************************************************************************)
\* the _auto_mode_loop tasks start_auto_mode can have created
Loops == {"auto_mode_loop", "auto_mode_loop_2"}

\* the callers of trigger_job_search: a request (the HTTP route or
\* retry_failed_task, which call it alike) and the _auto_mode_loop tasks
Triggers == {"request"} \cup Loops

\* positions between "self.workflow_running = True" and the finally clause
InWorkflow == {"log_start", "scraping", "scoring", "autoapply", "tracking",
               "log_complete", "except"}

SupervisorOnly ==
    UNCHANGED <<applyVars, trackerVars, simpleVars, enhancedVars, learnerVars,
               scorerVars,
               scraperVars,
               lifecycleVars,
               searchCacheVars,
               retryVars>>

InitSupervisor ==
    /\ workflow_running = FALSE
    /\ auto_apply_enabled = FALSE
    /\ wpc = [t \in Triggers |-> "idle"]
    /\ phases_run = [t \in Triggers |-> {}]
    /\ wresult = [t \in Triggers |-> "none"]
    /\ scraping_result = [t \in Triggers |-> "none"]
    /\ auto_mode_enabled = FALSE
    /\ loop_pc = [l \in Loops |-> "none"]

\* a guard that never sees the flag
AlreadyRunning_Ignored == FALSE

\* "if self.workflow_running:" at the top of trigger_job_search
AlreadyRunning == workflow_running

\* the call up to its first await: the guard, then the flag is set
Trigger(t) ==
    /\ SupervisorOnly
    /\ wpc[t] = "idle"
    /\ IF t \in Loops
       THEN \* "while self.auto_mode_enabled:" and the scheduled-time test
            /\ loop_pc[t] = "waiting"
            /\ auto_mode_enabled
            /\ loop_pc' = [loop_pc EXCEPT ![t] = "cycle"]
       ELSE UNCHANGED loop_pc
    /\ phases_run' = [phases_run EXCEPT ![t] = {}]
    /\ scraping_result' = [scraping_result EXCEPT ![t] = "none"]
    /\ IF AlreadyRunning
       THEN /\ wresult' = [wresult EXCEPT ![t] = "busy"]
            /\ wpc' = [wpc EXCEPT ![t] = "returned"]
            /\ UNCHANGED workflow_running
       ELSE /\ workflow_running' = TRUE
            /\ wresult' = [wresult EXCEPT ![t] = "none"]
            /\ wpc' = [wpc EXCEPT ![t] = "log_start"]
    /\ UNCHANGED <<auto_apply_enabled, auto_mode_enabled>>

\* the awaited workflow_start log entry is written, or the store raises
LogStart(t) ==
    /\ SupervisorOnly
    /\ wpc[t] = "log_start"
    /\ \/ wpc' = [wpc EXCEPT ![t] = "scraping"]
       \/ wpc' = [wpc EXCEPT ![t] = "except"]
    /\ UNCHANGED <<workflow_running, auto_apply_enabled, phases_run, wresult,
                   scraping_result, auto_mode_enabled, loop_pc>>

\* a phase returns its result; a failure inside a phase is caught by the
\* phase and returned as success = False
RunPhase(t, phase, next_pc) ==
    /\ SupervisorOnly
    /\ wpc[t] = phase
    /\ phases_run' = [phases_run EXCEPT ![t] = @ \cup {phase}]
    /\ wpc' = [wpc EXCEPT ![t] = next_pc]
    /\ UNCHANGED <<workflow_running, auto_apply_enabled, wresult,
                   auto_mode_enabled, loop_pc>>

\* _execute_scraping_phase: the connector answers, or fails entirely and the
\* phase returns success = False; the workflow goes on either way
ScrapingPhase(t) ==
    /\ RunPhase(t, "scraping", "scoring")
    /\ \E outcome \in {"ok", "failed"} :
          scraping_result' = [scraping_result EXCEPT ![t] = outcome]

\* a later phase
LaterPhase(t, phase, next_pc) ==
    /\ RunPhase(t, phase, next_pc)
    /\ UNCHANGED scraping_result

ScoringPhase(t) ==
    LaterPhase(t, "scoring", IF auto_apply_enabled THEN "autoapply" ELSE "tracking")

AutoApplyPhase(t) == LaterPhase(t, "autoapply", "tracking")

TrackingPhase(t) == LaterPhase(t, "tracking", "log_complete")

\* a finally clause that leaves the flag set
ClearRunning_Kept == TRUE

\* the finally clause
ClearRunning == FALSE

\* the workflow_complete log entry is written and the result returned, or
\* the store raises; the finally clause runs when the result is returned
LogComplete(t) ==
    /\ SupervisorOnly
    /\ wpc[t] = "log_complete"
    /\ \/ /\ wpc' = [wpc EXCEPT ![t] = "returned"]
          /\ wresult' = [wresult EXCEPT ![t] = "success"]
          /\ workflow_running' = ClearRunning
       \/ /\ wpc' = [wpc EXCEPT ![t] = "except"]
          /\ UNCHANGED <<wresult, workflow_running>>
    /\ UNCHANGED <<auto_apply_enabled, phases_run, scraping_result,
                   auto_mode_enabled, loop_pc>>

\* the except clause logs the error and returns the failure; the finally
\* clause runs whether or not that log entry could be written
ExceptClause(t) ==
    /\ SupervisorOnly
    /\ wpc[t] = "except"
    /\ wpc' = [wpc EXCEPT ![t] = "returned"]
    /\ wresult' = [wresult EXCEPT ![t] = "failed"]
    /\ workflow_running' = ClearRunning
    /\ UNCHANGED <<auto_apply_enabled, phases_run, scraping_result,
                   auto_mode_enabled, loop_pc>>

\* the caller takes the result; it may call again later
TakeResult(t) ==
    /\ SupervisorOnly
    /\ wpc[t] = "returned"
    /\ wpc' = [wpc EXCEPT ![t] = "idle"]
    /\ wresult' = [wresult EXCEPT ![t] = "none"]
    /\ phases_run' = [phases_run EXCEPT ![t] = {}]
    /\ scraping_result' = [scraping_result EXCEPT ![t] = "none"]
    /\ IF t \in Loops
       THEN \* the loop goes to its hourly sleep
            loop_pc' = [loop_pc EXCEPT ![t] = "waiting"]
       ELSE UNCHANGED loop_pc
    /\ UNCHANGED <<workflow_running, auto_apply_enabled, auto_mode_enabled>>

\* update_configuration({'auto_apply_enabled': v})
UpdateConfiguration(v) ==
    /\ SupervisorOnly
    /\ auto_apply_enabled' = v
    /\ UNCHANGED <<workflow_running, wpc, phases_run, wresult, scraping_result,
                   auto_mode_enabled, loop_pc>>

\* start_auto_mode: sets the flag and creates an _auto_mode_loop task
StartAutoMode ==
    /\ SupervisorOnly
    /\ auto_mode_enabled' = TRUE
    /\ \E l \in Loops :
          /\ loop_pc[l] \in {"none", "exited"}
          /\ loop_pc' = [loop_pc EXCEPT ![l] = "waiting"]
    /\ UNCHANGED <<workflow_running, auto_apply_enabled, wpc, phases_run,
                   wresult, scraping_result>>

\* stop_auto_mode: only the flag is cleared
StopAutoMode ==
    /\ SupervisorOnly
    /\ auto_mode_enabled' = FALSE
    /\ UNCHANGED <<workflow_running, auto_apply_enabled, wpc, phases_run,
                   wresult, scraping_result, loop_pc>>

\* "while self.auto_mode_enabled:" read as False after the sleep: the loop ends
LoopExit(l) ==
    /\ SupervisorOnly
    /\ loop_pc[l] = "waiting"
    /\ ~auto_mode_enabled
    /\ loop_pc' = [loop_pc EXCEPT ![l] = "exited"]
    /\ UNCHANGED <<workflow_running, auto_apply_enabled, wpc, phases_run,
                   wresult, scraping_result, auto_mode_enabled>>

\* a step of one trigger_job_search call
TriggerStep(t) ==
    \/ Trigger(t)
    \/ LogStart(t)
    \/ ScrapingPhase(t)
    \/ ScoringPhase(t)
    \/ AutoApplyPhase(t)
    \/ TrackingPhase(t)
    \/ LogComplete(t)
    \/ ExceptClause(t)
    \/ TakeResult(t)

\* a step of the agent with the given callers of trigger_job_search
SupervisorStep(callers) ==
    \/ \E t \in callers : TriggerStep(t)
    \/ \E v \in BOOLEAN : UpdateConfiguration(v)
    \/ StartAutoMode
    \/ StopAutoMode
    \/ \E l \in Loops : LoopExit(l)

NextSupervisor == SupervisorStep(Triggers)

(***************************************************************************)
(* SimpleSupervisorAgent: auto mode and trigger_job_search                 *)
(***************************************************************************)
SimpleOnly ==
    UNCHANGED <<applyVars, trackerVars, supervisorVars, enhancedVars, learnerVars,
               scorerVars,
               scraperVars,
               lifecycleVars,
               searchCacheVars,
               retryVars>>

InitSimple ==
    /\ is_auto_mode = FALSE
    /\ auto_task = "none"
    /\ manual_search = "idle"
    /\ cache_valid = FALSE

\* SimpleSupervisorAgent.start_auto_mode: refused when the flag is set,
\* otherwise sets it and creates the _auto_search_loop task
SimpleStartAutoMode ==
    /\ SimpleOnly
    /\ ~is_auto_mode
    /\ is_auto_mode' = TRUE
    /\ auto_task' = "created"
    /\ UNCHANGED <<manual_search, cache_valid>>

\* _auto_search_loop at "while self.is_auto_mode:" calls trigger_job_search,
\* which answers from the cache or awaits the scraper
AutoSearchIterate ==
    /\ SimpleOnly
    /\ auto_task \in {"created", "sleep"}
    /\ IF ~is_auto_mode THEN auto_task' = "ended"
       ELSE IF cache_valid THEN auto_task' = "sleep"
       ELSE auto_task' = "cycle"
    /\ UNCHANGED <<is_auto_mode, manual_search, cache_valid>>

\* the scraper returns to the loop's trigger_job_search: jobs are saved and
\* scored and the result cached, or the failure is returned; the loop sleeps
AutoSearchCycleDone ==
    /\ SimpleOnly
    /\ auto_task = "cycle"
    /\ auto_task' = "sleep"
    /\ \/ cache_valid' = TRUE
       \/ UNCHANGED cache_valid
    /\ UNCHANGED <<is_auto_mode, manual_search>>

\* SimpleSupervisorAgent.stop_auto_mode: clears the flag, then cancels the
\* task and awaits it; CancelledError is raised in the task at the await it
\* is suspended on
SimpleStopAutoMode ==
    /\ SimpleOnly
    /\ is_auto_mode
    /\ is_auto_mode' = FALSE
    /\ auto_task' = IF auto_task \in {"created", "cycle", "sleep"}
                    THEN "cancelled" ELSE auto_task
    /\ UNCHANGED <<manual_search, cache_valid>>

\* trigger_job_search called by a route: no run-in-progress test; a fresh
\* cache entry for the same parameters is returned at once
ManualSearchStart ==
    /\ SimpleOnly
    /\ manual_search = "idle"
    /\ \E same_params \in BOOLEAN :
          IF same_params /\ cache_valid
          THEN manual_search' = "idle"
          ELSE manual_search' = "cycle"
    /\ manual_search' # manual_search
    /\ UNCHANGED <<is_auto_mode, auto_task, cache_valid>>

\* the scraper returns to the route's trigger_job_search
ManualSearchDone ==
    /\ SimpleOnly
    /\ manual_search = "cycle"
    /\ manual_search' = "idle"
    /\ \/ cache_valid' = TRUE
       \/ UNCHANGED cache_valid
    /\ UNCHANGED <<is_auto_mode, auto_task>>

\* max_cache_age passes
CacheExpires ==
    /\ SimpleOnly
    /\ cache_valid
    /\ cache_valid' = FALSE
    /\ UNCHANGED <<is_auto_mode, auto_task, manual_search>>

NextSimple ==
    \/ SimpleStartAutoMode
    \/ AutoSearchIterate
    \/ AutoSearchCycleDone
    \/ SimpleStopAutoMode
    \/ ManualSearchStart
    \/ ManualSearchDone
    \/ CacheExpires

(***************************************************************************)
(* EnhancedSupervisorAgent: the scheduler thread and manual_run threads    *)
(***************************************************************************)
Threads == {"scheduler", "manual"}

EnhancedOnly ==
    UNCHANGED <<applyVars, trackerVars, supervisorVars, simpleVars, learnerVars,
               scorerVars,
               scraperVars,
               lifecycleVars,
               searchCacheVars,
               retryVars>>

InitEnhanced ==
    /\ is_running = FALSE
    /\ epc = [th \in Threads |-> "idle"]

\* manual_run: refused when is_running, otherwise a thread is started on
\* _run_workflow
ManualRun ==
    /\ EnhancedOnly
    /\ epc["manual"] = "idle"
    /\ ~is_running
    /\ epc' = [epc EXCEPT !["manual"] = "started"]
    /\ UNCHANGED is_running

\* _run_workflow: "if self.is_running: return", in the scheduler thread when
\* the job is due and in a thread manual_run started
RunWorkflow(th) ==
    /\ EnhancedOnly
    /\ epc[th] = (IF th = "manual" THEN "started" ELSE "idle")
    /\ epc' = [epc EXCEPT ![th] = IF is_running THEN "idle" ELSE "checked"]
    /\ UNCHANGED is_running

\* asyncio.run(self._run_async_workflow()): the coroutine sets is_running
RunAsyncWorkflow(th) ==
    /\ EnhancedOnly
    /\ epc[th] = "checked"
    /\ is_running' = TRUE
    /\ epc' = [epc EXCEPT ![th] = "running"]

\* the workflow ends (completed, ended early or failed): the finally clause
WorkflowFinally(th) ==
    /\ EnhancedOnly
    /\ epc[th] = "running"
    /\ is_running' = FALSE
    /\ epc' = [epc EXCEPT ![th] = "idle"]

NextEnhanced ==
    \/ ManualRun
    \/ \E th \in Threads :
          \/ RunWorkflow(th)
          \/ RunAsyncWorkflow(th)
          \/ WorkflowFinally(th)

(***************************************************************************)
(* Adaptive learner of SupervisorAgent, and the scorer's weights.          *)
(* The threshold is held in hundredths; a learner weight w is held as the  *)
(* integer w * WeightScale, which is exact for the products by 1.1 and 0.9 *)
(* that MaxLearnerSteps operations can make.                               *)
(***************************************************************************)
\* learner operations of one run
MaxLearnerSteps == 3

WeightScale == 100 * 10 ^ MaxLearnerSteps

Components == {"skill_match", "experience_match", "salary_match", "company_quality"}

\* learning_data['scoring_weights'] of __init__: 0.35, 0.25, 0.20, 0.20
InitialWeights ==
    [c \in Components |->
        CASE c = "skill_match" -> 35 * (WeightScale \div 100)
          [] c = "experience_match" -> 25 * (WeightScale \div 100)
          [] OTHER -> 20 * (WeightScale \div 100)]

\* config['scoring_threshold'] of __init__
initial_scoring_threshold == 70

threshold_floor == 50
threshold_ceiling == 90
threshold_small_step == 5
threshold_large_step == 10
threshold_min_delta == 2

\* application counts below and above which the threshold is moved
few_applications == 5
many_applications == 20

weight_floor == WeightScale \div 10
weight_ceiling == 4 * (WeightScale \div 10)
weight_min_delta == 2 * (WeightScale \div 100)

\* a component is judged once it has this many high-scoring applications
min_high_total == 5

Min(a, b) == IF a < b THEN a ELSE b
Max(a, b) == IF a > b THEN a ELSE b
Abs(a) == IF a < 0 THEN 0 - a ELSE a

\* the applications of the last 30 days, as the counts the learner takes
\* from them: all, by status group, and those still in status "applied"
OutcomeHistories ==
    {[total |-> h[1], interviews |-> h[2], offers |-> h[3], rejections |-> h[4],
      still_applied |-> h[1] - h[2] - h[3] - h[4]] :
        h \in {<<3, 0, 0, 0>>, <<12, 0, 0, 0>>, <<12, 0, 0, 6>>,
               <<12, 2, 0, 0>>, <<12, 6, 1, 0>>, <<21, 1, 0, 6>>}}

\* _analyze_scoring_components per component: high_total and high_success;
\* company_quality is never counted
ComponentAnalyses ==
    {[c \in Components |->
        CASE c = "skill_match" -> a
          [] c = "experience_match" -> b
          [] c = "salary_match" -> d
          [] OTHER -> <<0, 0>>] :
        a \in {<<0, 0>>, <<5, 0>>, <<5, 4>>},
        b \in {<<0, 0>>, <<5, 2>>, <<5, 4>>},
        d \in {<<0, 0>>, <<5, 4>>}}

\* the rows one query can return: the applications with a high component
\* score are among the applications, the successful ones among the
\* interviews and offers
ApplicationSets ==
    {set \in OutcomeHistories \X ComponentAnalyses :
        \A c \in Components :
            /\ set[2][c][1] <= set[1].total
            /\ set[2][c][2] <= set[1].interviews + set[1].offers}

NoAnalysis == [c \in Components |-> <<0, 0>>]

\* learning_data['outcome_analytics'] without an entry for the user
NoOutcomes ==
    [outcomes |-> [total |-> -1, interviews |-> 0, offers |-> 0,
                   rejections |-> 0, still_applied |-> 0],
     component_analysis |-> NoAnalysis,
     weight_adjustments |-> {}]

NoPass == [skills |-> -1, experience |-> -1, education |-> -1, den |-> 1,
           threshold |-> -1]

LearnerOnly ==
    UNCHANGED <<applyVars, trackerVars, supervisorVars, simpleVars, enhancedVars,
                scorerVars,
               scraperVars,
               lifecycleVars,
               searchCacheVars,
               retryVars>>

\* ScoringWeights defaults: skills 0.7, experience 0.2, education 0.1, in
\* thousandths over the denominator den
default_weights == [skills |-> 700, experience |-> 200, education |-> 100, den |-> 1000]

InitLearner ==
    /\ scoring_threshold = initial_scoring_threshold
    /\ scoring_weights = InitialWeights
    /\ outcome_analytics = NoOutcomes
    /\ threshold_history = <<>>
    /\ activity_log = <<>>
    /\ insights = {}
    /\ scorer_weights = default_weights
    /\ last_pass = NoPass
    /\ learner_steps = 0
    /\ last_learner_op = "none"
    /\ retuned = {}

\* success_rate of a component: high_success / high_total, 0 without data
HighRate(data) == data[2] * 10 > 6 * data[1]
LowRate(data) == data[2] * 10 < 3 * data[1]

\* min(0.4, current_weight * 1.1)
RaisedWeight_Unclamped(w) == (w * 11) \div 10

RaisedWeight(w) == Min(weight_ceiling, (w * 11) \div 10)

\* max(0.1, current_weight * 0.9)
LoweredWeight(w) == Max(weight_floor, (w * 9) \div 10)

\* abs(new_weight - current_weight) > 0.02 as the floating-point code
\* evaluates it: a difference of exactly 0.02 exceeds 0.02 when the weight
\* was raised (0.2 * 1.1 - 0.2 is 0.020000000000000018) and does not when it
\* was lowered (0.2 - 0.2 * 0.9 is 0.01999999999999999)
SignificantChange(w, new_w) ==
    \/ Abs(new_w - w) > weight_min_delta
    \/ new_w - w = weight_min_delta

\* new_weight of _calculate_weight_adjustments, or the current weight when
\* the component is skipped
NewWeight(w, data) ==
    IF data[1] < min_high_total THEN w
    ELSE IF HighRate(data) THEN RaisedWeight(w)
    ELSE IF LowRate(data) THEN LoweredWeight(w)
    ELSE w

\* _calculate_weight_adjustments: the components to adjust
AdjustedComponents(weights, analysis) ==
    {c \in Components :
        /\ NewWeight(weights[c], analysis[c]) # weights[c]
        /\ SignificantChange(weights[c], NewWeight(weights[c], analysis[c]))}

\* _generate_user_insights
UserInsights(outcomes, analysis) ==
    (IF outcomes.total > 0 /\ outcomes.interviews * 10 < outcomes.total
     THEN {"low_interview_rate"} ELSE {})
    \cup (IF outcomes.total > 0 /\ outcomes.interviews * 10 > 3 * outcomes.total
          THEN {"great_interview_rate"} ELSE {})
    \cup {c \in {"skill_match", "salary_match"} :
            /\ analysis[c][1] >= min_high_total
            /\ analysis[c][2] * 10 < 2 * analysis[c][1]}

\* self.database.fetch_all(query): the applications of the user in the
\* window, as counts
fetch_all == ApplicationSets

\* analyze_user_outcomes, with _apply_scoring_adjustments when there are
\* adjustments
AnalyzeUserOutcomes(outcomes, analysis) ==
    /\ LearnerOnly
    /\ learner_steps < MaxLearnerSteps
    /\ learner_steps' = learner_steps + 1
    /\ last_learner_op' = "analyze"
    /\ outcome_analytics' =
          [outcomes |-> outcomes,
           component_analysis |-> analysis,
           weight_adjustments |-> AdjustedComponents(scoring_weights, analysis)]
    /\ insights' = UserInsights(outcomes, analysis)
    /\ LET adjusted == AdjustedComponents(scoring_weights, analysis)
       IN IF adjusted # {}
          THEN /\ scoring_weights' =
                     [c \in Components |->
                        IF c \in adjusted
                        THEN NewWeight(scoring_weights[c], analysis[c])
                        ELSE scoring_weights[c]]
               /\ activity_log' =
                     Append(activity_log,
                            [action |-> "scoring_adjustment",
                             metadata |->
                                [c \in adjusted |->
                                    NewWeight(scoring_weights[c], analysis[c])]])
               /\ retuned' = retuned \cup adjusted
          ELSE UNCHANGED <<scoring_weights, activity_log, retuned>>
    /\ UNCHANGED <<scoring_threshold, threshold_history, scorer_weights, last_pass>>

AnalyzeRequest ==
    \E applications \in fetch_all :
        AnalyzeUserOutcomes(applications[1], applications[2])

\* new_threshold of adaptive_threshold_tuning
NewThreshold(current_threshold, outcomes) ==
    LET total_apps == outcomes.total
        successes == outcomes.interviews + outcomes.offers
        denominator == Max(total_apps, 1)
    IN IF total_apps < few_applications
       THEN Max(threshold_floor, current_threshold - threshold_small_step)
       ELSE IF total_apps > many_applications
       THEN Min(threshold_ceiling, current_threshold + threshold_small_step)
       ELSE IF successes * 10 < denominator
       THEN Min(threshold_ceiling, current_threshold + threshold_large_step)
       ELSE IF successes * 10 > 4 * denominator
       THEN Max(threshold_floor, current_threshold - threshold_small_step)
       ELSE current_threshold

\* adaptive_threshold_tuning
AdaptiveThresholdTuning ==
    /\ LearnerOnly
    /\ learner_steps < MaxLearnerSteps
    /\ learner_steps' = learner_steps + 1
    /\ last_learner_op' = "tune"
    /\ LET new_threshold ==
               NewThreshold(scoring_threshold, outcome_analytics.outcomes)
       IN IF /\ outcome_analytics # NoOutcomes
             /\ Abs(new_threshold - scoring_threshold) > threshold_min_delta
          THEN /\ scoring_threshold' = new_threshold
               /\ threshold_history' =
                     Append(threshold_history,
                            [old_threshold |-> scoring_threshold,
                             new_threshold |-> new_threshold,
                             reason |-> "success rate and total apps"])
               /\ activity_log' =
                     Append(activity_log,
                            [action |-> "threshold_adjustment",
                             metadata |->
                                [successes |->
                                    outcome_analytics.outcomes.interviews
                                    + outcome_analytics.outcomes.offers,
                                 total_apps |->
                                    outcome_analytics.outcomes.total]])
          ELSE UNCHANGED <<scoring_threshold, threshold_history, activity_log>>
    /\ UNCHANGED <<scoring_weights, outcome_analytics, insights, scorer_weights,
                   last_pass, retuned>>

\* values of 'scoring_threshold' a configuration update can carry
ConfigThresholds == {30, 60, 95}

\* update_configuration({'scoring_threshold': v})
UpdateScoringThreshold(v) ==
    /\ LearnerOnly
    /\ learner_steps < MaxLearnerSteps
    /\ learner_steps' = learner_steps + 1
    /\ last_learner_op' = "configure"
    /\ scoring_threshold' = v
    /\ activity_log' =
          Append(activity_log,
                 [action |-> "config_update",
                  metadata |-> [scoring_threshold |-> v]])
    /\ UNCHANGED <<scoring_weights, outcome_analytics, threshold_history,
                   insights, scorer_weights, last_pass, retuned>>

ConfigurationRequest == \E v \in ConfigThresholds : UpdateScoringThreshold(v)

\* weight triples a ScoringWeights can be constructed from, in thousandths
WeightTriples ==
    {<<700, 200, 100>>, <<700, 200, 105>>, <<500, 300, 300>>, <<0, 0, 0>>}

\* ScoringWeights.__post_init__: divides by the total when it is more than
\* 0.01 away from 1.0
PostInit(triple) ==
    LET total == triple[1] + triple[2] + triple[3]
    IN [skills |-> triple[1], experience |-> triple[2], education |-> triple[3],
        den |-> IF Abs(total - 1000) > 10 THEN total ELSE 1000]

\* JobScoringAgent(weights=ScoringWeights(...)); a total of 0 raises
\* ZeroDivisionError in __post_init__ and nothing is constructed
ConstructScoringWeights(triple) ==
    /\ LearnerOnly
    /\ learner_steps < MaxLearnerSteps
    /\ learner_steps' = learner_steps + 1
    /\ last_learner_op' = "construct"
    /\ IF PostInit(triple).den = 0
       THEN UNCHANGED scorer_weights
       ELSE scorer_weights' = PostInit(triple)
    /\ UNCHANGED <<scoring_threshold, scoring_weights, outcome_analytics,
                   threshold_history, activity_log, insights, last_pass,
                   retuned>>

ConstructRequest == \E triple \in WeightTriples : ConstructScoringWeights(triple)

\* self.scoring_agent.score_jobs(user_id): score_candidate weighs the section
\* scores with self.weights
score_jobs == scorer_weights

\* _execute_scoring_phase: scores, then filters with config['scoring_threshold']
ExecuteScoringPhase ==
    /\ LearnerOnly
    /\ learner_steps < MaxLearnerSteps
    /\ learner_steps' = learner_steps + 1
    /\ last_learner_op' = "score"
    /\ last_pass' = [skills |-> score_jobs.skills,
                     experience |-> score_jobs.experience,
                     education |-> score_jobs.education,
                     den |-> score_jobs.den,
                     threshold |-> scoring_threshold]
    /\ retuned' = {}
    /\ UNCHANGED <<scoring_threshold, scoring_weights, outcome_analytics,
                   threshold_history, activity_log, insights, scorer_weights>>

NextLearner ==
    \/ AnalyzeRequest
    \/ AdaptiveThresholdTuning
    \/ ConfigurationRequest
    \/ ConstructRequest
    \/ ExecuteScoringPhase

(***************************************************************************)
(* JobScoringAgent.score_candidate.  Scores are integers in units of       *)
(* 1/ScoreScale of a point, so that the weighted sum and the calibration   *)
(* are exact.                                                              *)
(***************************************************************************)
ScoreScale == 10 * 100

\* similarities, in percent, the embedding can give two non-empty sections
Similarities == {0, 50, 100}

\* what the two texts of the sections are: all present, the job description
\* empty, the resume sections empty, both empty; or a value that makes the
\* extraction raise
SectionTexts == {"present", "job_empty", "resume_empty", "both_empty", "raises"}

excellent_band == 70
good_band == 55
excellent_boost == 35
good_boost == 25
light_boost == 8

excellent_fit == 80
good_fit == 65
fair_fit == 40

ScorerOnly ==
    UNCHANGED <<applyVars, trackerVars, supervisorVars, simpleVars, enhancedVars,
                learnerVars,
               scraperVars,
               lifecycleVars,
               searchCacheVars,
               retryVars>>

NoScores == [skills |-> 0, experience |-> 0, education |-> 0]

InitScorer ==
    /\ section_texts = "none"
    /\ section_scores = NoScores
    /\ weighted_score = -1
    /\ total_score = -1
    /\ classification = "none"
    /\ prev_weighted_score = -1
    /\ prev_total_score = -1

\* _compute_section_similarity times 100: 0 when either text is blank
compute_section_similarity(texts, similarity) ==
    IF texts = "present" THEN similarity ELSE 0

\* weighted_score = weights.skills * skills + weights.experience * experience
\*                  + weights.education * education
WeightedScore(weights, scores) ==
    ((weights.skills * scores.skills + weights.experience * scores.experience
      + weights.education * scores.education) * ScoreScale) \div weights.den

\* a calibration that boosts the low band most
BoostPercent_Inverted(weighted) ==
    IF weighted >= excellent_band * ScoreScale THEN light_boost
    ELSE IF weighted >= good_band * ScoreScale THEN good_boost
    ELSE excellent_boost

\* the boost of the band of the weighted score, in percent of the distance
\* to 100
BoostPercent(weighted) ==
    IF weighted >= excellent_band * ScoreScale THEN excellent_boost
    ELSE IF weighted >= good_band * ScoreScale THEN good_boost
    ELSE light_boost

\* normalized_score = weighted_score + (100 - weighted_score) * boost, then
\* total_score = min(100.0, normalized_score)
Calibrated(weighted) ==
    Min(100 * ScoreScale,
        weighted + ((100 * ScoreScale - weighted) * BoostPercent(weighted)) \div 100)

\* round(total_score, 2), to the nearest hundredth
RoundHundredths(score) ==
    ((score + ScoreScale \div 200) \div (ScoreScale \div 100)) * (ScoreScale \div 100)

\* _classify_score
classify_score(score) ==
    IF score >= excellent_fit * ScoreScale THEN "Excellent Fit"
    ELSE IF score >= good_fit * ScoreScale THEN "Good Fit"
    ELSE IF score >= fair_fit * ScoreScale THEN "Fair Fit"
    ELSE "Poor Fit"

\* score_candidate(resume_data, job_description)
ScoreCandidate(texts, sims) ==
    /\ ScorerOnly
    /\ section_texts' = texts
    /\ IF texts = "raises"
       THEN /\ section_scores' = NoScores
            /\ total_score' = 0
            /\ classification' = "Error"
            /\ weighted_score' = -1
            /\ prev_weighted_score' = -1
            /\ prev_total_score' = -1
       ELSE LET scores == [skills |-> compute_section_similarity(texts, sims[1]),
                           experience |-> compute_section_similarity(texts, sims[2]),
                           education |-> compute_section_similarity(texts, sims[3])]
                weighted == WeightedScore(scorer_weights, scores)
            IN /\ section_scores' = scores
               /\ weighted_score' = weighted
               /\ total_score' = RoundHundredths(Calibrated(weighted))
               /\ classification' = classify_score(Calibrated(weighted))
               /\ prev_weighted_score' = weighted_score
               /\ prev_total_score' = IF weighted_score = -1 THEN -1 ELSE total_score

\* the embedding is only consulted for non-empty texts
ScoreRequest ==
    \E texts \in SectionTexts :
        \E sims \in (IF texts = "present"
                     THEN Similarities \X Similarities \X Similarities
                     ELSE {<<0, 0, 0>>}) :
            ScoreCandidate(texts, sims)

NextScorer == ScoreRequest

(***************************************************************************)
(* EnhancedScraperAgent.scrape_jobs and _remove_duplicates                 *)
(***************************************************************************)
\* postings all sources together return to one scrape_jobs call
MaxPostings == 3

\* str.lower() on the texts of the postings
Lower(s) ==
    CASE s = "Engineer" -> "engineer"
      [] s = " Engineer" -> " engineer"
      [] s = "Analyst" -> "analyst"
      [] s = "QA" -> "qa"
      [] s = "Remote Position" -> "remote position"
      [] s = "Acme" -> "acme"
      [] s = "ACME" -> "acme"
      [] s = "Beta" -> "beta"
      [] s = "Gamma" -> "gamma"
      [] s = "HTTPS://A/1" -> "https://a/1"
      [] s = "Remote" -> "remote"
      [] s = "India" -> "india"
      [] OTHER -> s

\* str.strip()
Strip(s) ==
    CASE s = " Engineer" -> "Engineer"
      [] s = " engineer" -> "engineer"
      [] OTHER -> s

\* len() of a text
StrLen(s) ==
    CASE s = "" -> 0
      [] s \in {"QA", "qa"} -> 2
      [] OTHER -> 3

\* JobListing values the sources return
Postings ==
    {[title |-> "Engineer", company |-> "Acme", url |-> "https://a/1"],
     [title |-> " Engineer", company |-> "ACME", url |-> "https://a/2"],
     [title |-> "Analyst", company |-> "Beta", url |-> "HTTPS://A/1"],
     [title |-> "Analyst", company |-> "Beta", url |-> ""],
     [title |-> "QA", company |-> "Acme", url |-> ""],
     [title |-> "Remote Position", company |-> "Gamma", url |-> "https://a/3"]}

\* values of search_params['max_results']
MaxResultsValues == {1, 2, 50}

ScraperOnly ==
    UNCHANGED <<applyVars, trackerVars, supervisorVars, simpleVars, enhancedVars,
                learnerVars, scorerVars,
               lifecycleVars,
               searchCacheVars,
               retryVars>>

InitScraper ==
    /\ scrape_pc = "idle"
    /\ all_jobs = <<>>
    /\ max_results = 50
    /\ returned_jobs = <<>>

title_company_key(posting) ==
    <<Strip(Lower(posting.title)), Strip(Lower(posting.company))>>

url_key(posting) == IF posting.url # "" THEN Strip(Lower(posting.url)) ELSE ""

\* "Skip jobs with generic/placeholder data"
IsPlaceholder(posting) ==
    \/ Lower(posting.title) \in {"remote position", "developer position",
                                 "professional position"}
    \/ Lower(posting.company) \in {"remote company", "tech company",
                                   "european company"}
    \/ StrLen(Strip(posting.title)) < 3
    \/ StrLen(Strip(posting.company)) < 2

\* the loop of _remove_duplicates from position i on; unique_jobs holds the
\* positions of the postings kept
RECURSIVE RemoveFrom(_, _, _, _, _)
RemoveFrom(jobs, i, seen_combinations, seen_urls, unique_jobs) ==
    IF i > Len(jobs) THEN unique_jobs
    ELSE IF \/ title_company_key(jobs[i]) \in seen_combinations
            \/ (url_key(jobs[i]) # "" /\ url_key(jobs[i]) \in seen_urls)
            \/ IsPlaceholder(jobs[i])
    THEN RemoveFrom(jobs, i + 1, seen_combinations, seen_urls, unique_jobs)
    ELSE RemoveFrom(jobs, i + 1,
                    seen_combinations \cup {title_company_key(jobs[i])},
                    IF url_key(jobs[i]) # ""
                    THEN seen_urls \cup {url_key(jobs[i])} ELSE seen_urls,
                    Append(unique_jobs, i))

remove_duplicates(jobs) == RemoveFrom(jobs, 1, {}, {}, <<>>)

\* scrape_jobs up to the first awaited source
ScrapeJobs(limit) ==
    /\ ScraperOnly
    /\ scrape_pc \in {"idle", "returned"}
    /\ scrape_pc' = "collecting"
    /\ all_jobs' = <<>>
    /\ max_results' = limit
    /\ returned_jobs' = <<>>

ScrapeRequest == \E limit \in MaxResultsValues : ScrapeJobs(limit)

\* a source returns postings: all_jobs.extend(jobs)
SourceReturns(posting) ==
    /\ ScraperOnly
    /\ scrape_pc = "collecting"
    /\ Len(all_jobs) < MaxPostings
    /\ all_jobs' = Append(all_jobs, posting)
    /\ UNCHANGED <<scrape_pc, max_results, returned_jobs>>

SourceStep == \E posting \in Postings : SourceReturns(posting)

\* after the last source: unique_jobs[:max_results]
ScrapeReturns ==
    /\ ScraperOnly
    /\ scrape_pc = "collecting"
    /\ scrape_pc' = "returned"
    /\ returned_jobs' =
          SubSeq(remove_duplicates(all_jobs), 1,
                 Min(max_results, Len(remove_duplicates(all_jobs))))
    /\ UNCHANGED <<all_jobs, max_results>>

NextScraper ==
    \/ ScrapeRequest
    \/ SourceStep
    \/ ScrapeReturns

(***************************************************************************)
(* TrackerAgent: applications moved by standard status updates only        *)
(***************************************************************************)
\* applications followed from their creation
MaxTracked == 2

Tracked == 1..MaxTracked

LifecycleOnly ==
    UNCHANGED <<applyVars, trackerVars, supervisorVars, simpleVars, enhancedVars,
                learnerVars, scorerVars, scraperVars,
               searchCacheVars,
               retryVars>>

\* _record_application creates every application in status "applied"
InitLifecycle == lifecycle = [a \in Tracked |-> <<"applied">>]

CurrentStatus(a) == lifecycle[a][Len(lifecycle[a])]

\* update_application_status(a, new_status) with a transition of the table
StandardUpdate(a, new_status) ==
    /\ LifecycleOnly
    /\ CurrentStatus(a) \in DOMAIN status_transitions
    /\ new_status \in status_transitions[CurrentStatus(a)]
    /\ is_valid_status_transition(CurrentStatus(a), new_status)
    /\ lifecycle' = [lifecycle EXCEPT ![a] = Append(@, new_status)]

StandardUpdateRequest ==
    \E a \in Tracked, new_status \in Statuses : StandardUpdate(a, new_status)

NextLifecycle == StandardUpdateRequest

(***************************************************************************)
(* The result cache of SimpleSupervisorAgent.trigger_job_search.  A result *)
(* is abstracted to the search_params the scraper was run with and to its  *)
(* age in half hours since its 'timestamp'.                                *)
(***************************************************************************)

\* max_cache_age = timedelta(hours=1), in half hours
max_cache_age == 2

\* search_query values of WorkflowTriggerRequest
SearchQueries == {"python", "java"}

\* location values of WorkflowTriggerRequest; "" is None
RequestLocations == {"", "India"}

\* max_jobs values of WorkflowTriggerRequest; 0 is None
RequestMaxJobs == {0, 10}

\* search_params given to trigger_job_search by callers that name the
\* criteria 'keywords' and 'max_results', as _auto_search_loop does
KeywordParams ==
    {[keywords |-> "python", location |-> "India", max_results |-> m] :
        m \in {10, 50}}

SearchCacheOnly ==
    UNCHANGED <<applyVars, trackerVars, supervisorVars, simpleVars,
               enhancedVars, learnerVars, scorerVars, scraperVars,
               lifecycleVars,
               retryVars>>

NoResponse == [kind |-> "none"]

InitSearchCache ==
    /\ search_results_cache = [k \in {} |-> NoResponse]
    /\ search_response = NoResponse

\* dict.get(key, default)
Get(d, key, default) == IF key \in DOMAIN d THEN d[key] ELSE default

\* str() of the integers used as max_results
Str(n) ==
    CASE n = 10 -> "10"
      [] n = 50 -> "50"
      [] n = 0 -> "0"

\* search_params built by the /workflow/trigger route
route_search_params(search_query, location, max_jobs) ==
    [query |-> search_query,
     location |-> IF location = "" THEN "Remote" ELSE location,
     max_jobs |-> IF max_jobs = 0 THEN 50 ELSE max_jobs,
     user_id |-> 1]

\* _create_cache_key: the parts joined by '|'
create_cache_key(search_params) ==
    <<Strip(Lower(Get(search_params, "keywords", ""))),
      Strip(Lower(Get(search_params, "location", ""))),
      Str(Get(search_params, "max_results", 50))>>

\* _is_cache_valid
is_cache_valid(cache_key) ==
    /\ cache_key \in DOMAIN search_results_cache
    /\ search_results_cache[cache_key].age < max_cache_age

\* trigger_job_search: a valid entry under the key is returned as it is;
\* otherwise the scraper runs with search_params and the result is cached
\* under the key, or an exception is answered with a failure that is not
\* cached
TriggerJobSearch(search_params) ==
    LET cache_key == create_cache_key(search_params) IN
    /\ SearchCacheOnly
    /\ IF is_cache_valid(cache_key)
       THEN /\ search_response' =
                   [kind |-> "cached",
                    search_params |-> search_params,
                    result |-> search_results_cache[cache_key]]
            /\ UNCHANGED search_results_cache
       ELSE \/ LET result == [searched |-> search_params, age |-> 0] IN
               /\ search_results_cache' =
                      [k \in DOMAIN search_results_cache \cup {cache_key} |->
                          IF k = cache_key THEN result
                          ELSE search_results_cache[k]]
               /\ search_response' =
                      [kind |-> "fresh",
                       search_params |-> search_params,
                       result |-> result]
            \/ /\ search_response' =
                      [kind |-> "failed", search_params |-> search_params]
               /\ UNCHANGED search_results_cache

\* POST /workflow/trigger
TriggerWorkflow ==
    \E search_query \in SearchQueries, location \in RequestLocations,
       max_jobs \in RequestMaxJobs :
        TriggerJobSearch(route_search_params(search_query, location, max_jobs))

\* a search of a caller that passes 'keywords' and 'max_results'
KeywordSearch ==
    \E search_params \in KeywordParams : TriggerJobSearch(search_params)

\* half an hour passes: datetime.now() moves away from every 'timestamp'
CacheClock ==
    /\ SearchCacheOnly
    /\ \E k \in DOMAIN search_results_cache :
           search_results_cache[k].age < max_cache_age
    /\ search_results_cache' =
           [k \in DOMAIN search_results_cache |->
               [search_results_cache[k] EXCEPT
                   !.age = IF @ < max_cache_age THEN @ + 1 ELSE @]]
    /\ UNCHANGED search_response

NextSearchCache ==
    \/ TriggerWorkflow
    \/ KeywordSearch
    \/ CacheClock

(***************************************************************************)
(* SupervisorAgent.retry_failed_task.  Calls are coroutines of one event   *)
(* loop: a call runs alone between its await points, which are the backoff *)
(* sleep and the awaited task.                                             *)
(***************************************************************************)

\* retry_config['retry_max_retries']
retry_max_retries == 3

\* executions of a task that are followed
MaxExecutions == 5

\* concurrent callers of retry_failed_task
RetryCallers == {"r1", "r2"}

\* task ids given to retry_failed_task
TaskIds == {"task_a"}

\* task_data['type']
TaskTypes == {"job_search", "auto_apply", "other"}

RetryOnly ==
    UNCHANGED <<applyVars, trackerVars, supervisorVars, simpleVars,
               enhancedVars, learnerVars, scorerVars, scraperVars,
               lifecycleVars, searchCacheVars>>

InitRetry ==
    /\ failed_tasks = [t \in {} |-> 0]
    /\ retry_pc = [c \in RetryCallers |-> [at |-> "idle"]]
    /\ retry_count = [c \in RetryCallers |-> 0]
    /\ retry_result = [c \in RetryCallers |-> "none"]
    /\ task_executions = [t \in TaskIds |-> 0]
    /\ task_succeeded = [t \in TaskIds |-> FALSE]

\* the check of the retry count and the registration of a new task id, up
\* to the await of asyncio.sleep(delay)
RetryEnter(c, task_id, task_type) ==
    /\ RetryOnly
    /\ retry_pc[c].at = "idle"
    /\ IF task_id \in DOMAIN failed_tasks /\ failed_tasks[task_id] >= retry_max_retries
       THEN /\ retry_result' = [retry_result EXCEPT ![c] = "Max retries exceeded"]
            /\ retry_count' = [retry_count EXCEPT ![c] = failed_tasks[task_id]]
            /\ UNCHANGED <<failed_tasks, retry_pc>>
       ELSE /\ failed_tasks' =
                   [t \in DOMAIN failed_tasks \cup {task_id} |->
                       IF t \in DOMAIN failed_tasks THEN failed_tasks[t] ELSE 0]
            /\ retry_count' = [retry_count EXCEPT ![c] = failed_tasks'[task_id]]
            /\ retry_pc' = [retry_pc EXCEPT ![c] =
                   [at |-> "sleep", task_id |-> task_id, task_type |-> task_type]]
            /\ retry_result' = [retry_result EXCEPT ![c] = "none"]
    /\ UNCHANGED <<task_executions, task_succeeded>>

\* workflow_running is held by the job_search task of another retry call
WorkflowBusy(c) ==
    \E d \in RetryCallers \ {c} :
        retry_pc[d].at = "task" /\ retry_pc[d].task_type = "job_search"

\* what follows the result of the task: a success deletes the id from
\* failed_tasks and a failure counts; either raises KeyError when another
\* call has deleted the id meanwhile, which the except clause answers as it
\* answers a task that raises
Settle(c, task_id, outcome) ==
    /\ retry_pc' = [retry_pc EXCEPT ![c] = [at |-> "idle"]]
    /\ IF outcome = "raises" \/ task_id \notin DOMAIN failed_tasks
       THEN /\ retry_result' = [retry_result EXCEPT ![c] = "error"]
            /\ UNCHANGED failed_tasks
       ELSE IF outcome = "success"
       THEN /\ failed_tasks' =
                   [t \in DOMAIN failed_tasks \ {task_id} |-> failed_tasks[t]]
            /\ retry_result' =
                   [retry_result EXCEPT ![c] = "Task retried successfully"]
       ELSE /\ failed_tasks' = [failed_tasks EXCEPT ![task_id] = @ + 1]
            /\ retry_result' = [retry_result EXCEPT ![c] = "Task failed again"]

\* the sleep is over: the task of the type is started, or an unknown type is
\* answered with an error; trigger_job_search answers 'Workflow already
\* running' at once, without running the workflow, while another job_search
\* task holds workflow_running
RetryExecute(c) ==
    /\ RetryOnly
    /\ retry_pc[c].at = "sleep"
    /\ IF retry_pc[c].task_type = "job_search" /\ WorkflowBusy(c)
       THEN /\ Settle(c, retry_pc[c].task_id, "failed")
            /\ UNCHANGED task_executions
       ELSE IF retry_pc[c].task_type \in {"job_search", "auto_apply"}
       THEN /\ task_executions[retry_pc[c].task_id] < MaxExecutions
            /\ task_executions' =
                   [task_executions EXCEPT ![retry_pc[c].task_id] = @ + 1]
            /\ retry_pc' = [retry_pc EXCEPT ![c].at = "task"]
            /\ UNCHANGED <<retry_result, failed_tasks>>
       ELSE /\ retry_pc' = [retry_pc EXCEPT ![c] = [at |-> "idle"]]
            /\ retry_result' = [retry_result EXCEPT ![c] = "Unknown task type"]
            /\ UNCHANGED <<task_executions, failed_tasks>>
    /\ UNCHANGED <<retry_count, task_succeeded>>

\* the awaited task returns its result, or raises
RetryFinish(c, outcome) ==
    /\ RetryOnly
    /\ retry_pc[c].at = "task"
    /\ task_succeeded' =
           [task_succeeded EXCEPT ![retry_pc[c].task_id] = @ \/ outcome = "success"]
    /\ Settle(c, retry_pc[c].task_id, outcome)
    /\ UNCHANGED <<retry_count, task_executions>>

RetryRequest ==
    \E c \in RetryCallers, task_id \in TaskIds, task_type \in TaskTypes :
        RetryEnter(c, task_id, task_type)

RetryTaskStart == \E c \in RetryCallers : RetryExecute(c)

RetryTaskEnd ==
    \E c \in RetryCallers, outcome \in {"success", "failed", "raises"} :
        RetryFinish(c, outcome)

NextRetry ==
    \/ RetryRequest
    \/ RetryTaskStart
    \/ RetryTaskEnd

(***************************************************************************)
(* Specifications                                                          *)
(***************************************************************************)
vars == <<applyVars, trackerVars, supervisorVars, simpleVars, enhancedVars,
          learnerVars, scorerVars,
          scraperVars, lifecycleVars, searchCacheVars, retryVars>>

Init ==
    /\ InitApply
    /\ InitTracker
    /\ InitSupervisor
    /\ InitSimple
    /\ InitEnhanced
    /\ InitLearner
    /\ InitScorer
    /\ InitScraper
    /\ InitLifecycle
    /\ InitSearchCache
    /\ InitRetry

Next ==
    \/ NextApplyConc
    \/ NextTracker
    \/ NextSupervisor
    \/ NextSimple
    \/ NextEnhanced
    \/ NextLearner
    \/ NextScorer
    \/ NextScraper
    \/ NextLifecycle
    \/ NextSearchCache
    \/ NextRetry

Spec == Init /\ [][Next]_vars

\* the apply agent with one caller
SpecApply == Init /\ [][NextApply]_vars

\* the apply agent shared by two concurrent callers
SpecApplyConc == Init /\ [][NextApplyConc]_vars

SpecTracker == Init /\ [][NextTracker]_vars

SpecSupervisor == Init /\ [][NextSupervisor]_vars

\* the background cycles of the simple and the enhanced supervisor
NextCycles == NextSimple \/ NextEnhanced

SpecCycles == Init /\ [][NextCycles]_vars

SpecLearner == Init /\ [][NextLearner]_vars

\* the run-in-progress flags of SupervisorAgent, called by a request and one
\* auto-mode loop, and of EnhancedSupervisorAgent
NextRunFlag == SupervisorStep({"request", "auto_mode_loop"}) \/ NextEnhanced

SpecRunFlag == Init /\ [][NextRunFlag]_vars
SpecScorer == Init /\ [][NextScorer]_vars
SpecScraper == Init /\ [][NextScraper]_vars
SpecLifecycle == Init /\ [][NextLifecycle]_vars
SpecSearchCache == Init /\ [][NextSearchCache]_vars
SpecRetry == Init /\ [][NextRetry]_vars

(***************************************************************************)
(* Properties of the apply pass                                            *)
(***************************************************************************)
\* the plan of the pass has been built
InPass(c) == pc[c] \in {"try", "backoff", "delay"}

\* _apply_to_job has returned its outcome to auto_apply_to_jobs
PassEnded(c) == pc[c] = "delay"

InPlan(plan, m) == \E k \in 1..Len(plan) : plan[k] = m

IndexIn(plan, m) == CHOOSE k \in 1..Len(plan) : plan[k] = m

\* the index of the channel the pass stands at: the channel being tried, the
\* channel that succeeded, or past the end when every channel failed
CurrentIndex(c) ==
    IF pc[c] # "delay" THEN midx[c]
    ELSE IF application_result[c].success
         THEN IndexIn(methods_to_try[c], application_result[c].method_tried)
         ELSE Len(methods_to_try[c]) + 1

\* the tries the channel the pass stands at has had
TriesOfCurrent(c) ==
    CASE pc[c] = "try" -> attempt[c]
      [] pc[c] = "backoff" -> attempt[c] + 1
      [] OTHER -> application_result[c].attempts_made

\* C1: every channel with a handler that the pass has left behind was tried
\* exactly max_retries times, no channel after the current one has been
\* tried, and a pass that returned success made its last try on the channel
\* that succeeded (no try follows a success).
C1_RetryThenFallback ==
    \A c \in Callers :
        InPass(c) =>
            LET plan == methods_to_try[c]
            IN \A k \in 1..Len(plan) :
                  plan[k] \in application_handlers =>
                      /\ k < CurrentIndex(c) => tries[c][plan[k]] = max_retries
                      /\ k > CurrentIndex(c) => tries[c][plan[k]] = 0
                      /\ k = CurrentIndex(c) =>
                            /\ tries[c][plan[k]] = TriesOfCurrent(c)
                            /\ tries[c][plan[k]] <= max_retries

\* a pass that succeeded on the second try of its second channel after the
\* first channel failed all its tries
C1_Witness ==
    \E c \in Callers :
        /\ PassEnded(c)
        /\ application_result[c].success
        /\ Len(methods_to_try[c]) >= 2
        /\ application_result[c].method_tried = methods_to_try[c][2]
        /\ application_result[c].attempts_made = 2
        /\ tries[c][methods_to_try[c][1]] = max_retries

\* C3: every channel of the attempt plan, the primary one included, is
\* applicable to the job according to _is_method_applicable.
C3_PlanStructurallyApplicable ==
    \A c \in Callers :
        InPass(c) =>
            \A k \in 1..Len(methods_to_try[c]) :
                is_method_applicable(job[c], methods_to_try[c][k], browser)

\* C4: no _apply_to_job call starts at or above the daily cap, and the
\* counter never exceeds the cap.
C4_DailyCapRespected ==
    /\ applications_today <= max_applications_per_day
    /\ \A c \in Callers :
          pc[c] \in {"cover_letter", "try", "backoff"} =>
              today_at_call[c] < max_applications_per_day

\* C6: a pass that exhausted every channel lists exactly the channels whose
\* handler was invoked, each of them has one more attempt and no more
\* successes than before the pass, and the error is the last one observed.
C6_ExhaustedOutcome ==
    \A c \in Callers :
        (PassEnded(c) /\ application_result[c].kind = "failure") =>
            LET tried == application_result[c].methods_tried
            IN /\ \A k \in 1..Len(tried) :
                     tried[k] \in Methods /\ tries[c][tried[k]] > 0
               /\ \A m \in Methods :
                     tries[c][m] > 0 =>
                         /\ InPlan(tried, m)
                         /\ method_stats[m].attempts = stats0[c][m].attempts + 1
                         /\ method_stats[m].successes = stats0[c][m].successes
               /\ application_result[c].error = last_error[c]

\* C7: success through the second channel after the first one failed moves
\* the statistics by one attempt on the first channel and one attempt and
\* one success on the second, and nothing else.
C7_FallbackStats ==
    \A c \in Callers :
        LET plan == methods_to_try[c]
        IN (/\ PassEnded(c)
            /\ application_result[c].success
            /\ Len(plan) >= 2
            /\ application_result[c].method_tried = plan[2])
           => method_stats =
                 [m \in Methods |->
                    [attempts |-> stats0[c][m].attempts
                                    + (IF m \in {plan[1], plan[2]} THEN 1 ELSE 0),
                     successes |-> stats0[c][m].successes
                                    + (IF m = plan[2] THEN 1 ELSE 0)]]

\* the first channel failed max_retries times and the fallback succeeded
C7_Witness ==
    \E c \in Callers :
        /\ PassEnded(c)
        /\ application_result[c].success
        /\ Len(methods_to_try[c]) >= 2
        /\ application_result[c].method_tried = methods_to_try[c][2]
        /\ tries[c][methods_to_try[c][1]] = max_retries
        /\ tries[c][methods_to_try[c][2]] = 1

\* C8: every pass that ended in success or in exhaustion wrote one record
\* (the store working).
C8_RecordForEveryOutcome ==
    \A c \in Callers :
        (/\ PassEnded(c)
         /\ application_result[c].kind \in {"success", "failure"}
         /\ ~record_failed[c])
        => recorded[c] = 1

C2_SingleWorkflow ==
    /\ Cardinality({t \in Triggers : wpc[t] \in InWorkflow}) <= 1
    /\ \A t \in Triggers :
          wresult[t] = "busy" => (wpc[t] = "returned" /\ phases_run[t] = {})
    /\ \A t \in Triggers : wpc[t] \in InWorkflow => workflow_running

\* one invocation is in its scoring phase while another was rejected
C2_Witness ==
    \E t1, t2 \in Triggers :
        /\ t1 # t2
        /\ wpc[t1] = "scoring"
        /\ wresult[t2] = "busy"
        /\ wpc[t2] = "returned"

(***************************************************************************)
(* Properties of the tracker                                               *)
(***************************************************************************)
InTable(current_status, new_status) ==
    /\ current_status \in DOMAIN status_transitions
    /\ new_status \in status_transitions[current_status]

TierOf(application) ==
    CASE application.follow_up_date = application.applied_at + first_follow_up -> 1
      [] application.follow_up_date = application.applied_at + second_follow_up -> 2
      [] application.follow_up_date = application.applied_at + final_follow_up -> 3
      [] OTHER -> 0

C11_FirstFollowUpAtCreation ==
    (last_op = "create" /\ app.exists /\ app.status = "applied")
        => app.follow_up_date = app.applied_at + first_follow_up

(***************************************************************************)
(* Properties of auto mode and of the background cycles                    *)
(***************************************************************************)
\* C12: stopping auto mode never ends a loop task that is inside a cycle: a
\* task leaves its loop only from between two cycles, a stop changes no
\* position of a running workflow, and a loop starts a cycle only while the
\* flag is set.
C12_StopIsCooperative ==
    [][/\ \A l \in Loops :
            /\ (loop_pc'[l] = "exited" /\ loop_pc[l] # "exited")
                   => loop_pc[l] = "waiting"
            /\ (loop_pc'[l] = "cycle" /\ loop_pc[l] # "cycle")
                   => auto_mode_enabled
       /\ (auto_mode_enabled /\ ~auto_mode_enabled') => wpc' = wpc
       /\ (auto_task' \in {"cancelled", "ended"} /\ auto_task # auto_task')
              => auto_task # "cycle"
       /\ (auto_task' = "cycle" /\ auto_task # "cycle") => is_auto_mode]_vars

\* C13: at most one cycle is executing, in the enhanced supervisor (threads
\* inside _run_async_workflow) and in the simple supervisor (the background
\* loop's search and a route's search).
C13_CyclesNeverOverlap ==
    /\ Cardinality({th \in Threads : epc[th] = "running"}) <= 1
    /\ ~(auto_task = "cycle" /\ manual_search = "cycle")

\* C14: a cycle whose scraping phase failed entirely runs no scoring, apply
\* or tracking phase, and returns a result to its caller.
C14_ConnectorFailureEndsCycle ==
    \A t \in Triggers :
        scraping_result[t] = "failed" =>
            /\ phases_run[t] \cap {"scoring", "autoapply", "tracking"} = {}
            /\ wpc[t] = "returned" => wresult[t] \in {"success", "failed"}

(* C15: after any sequence of adaptive threshold tunings and configuration  *)
(* updates the accept threshold lies in [0.5, 0.9]; a value outside the     *)
(* range supplied by a configuration update is clamped into it.             *)
C15_ThresholdInRange ==
    /\ threshold_floor <= scoring_threshold
    /\ scoring_threshold <= threshold_ceiling

\* the response rate of the stated rule: the share of the applications that
\* are no longer in status 'applied', against a percentage
ResponseRateBelow(outcomes, percent) ==
    (outcomes.total - outcomes.still_applied) * 100 < percent * outcomes.total

ResponseRateAbove(outcomes, percent) ==
    (outcomes.total - outcomes.still_applied) * 100 > percent * outcomes.total

\* the direction the stated rule gives the retune
StatedDirection(outcomes) ==
    IF outcomes.total < few_applications THEN "lower"
    ELSE IF outcomes.total > many_applications THEN "raise"
    ELSE IF ResponseRateBelow(outcomes, 10) THEN "raise"
    ELSE IF ResponseRateAbove(outcomes, 40) THEN "lower"
    ELSE "keep"

(* C16: a threshold retune moves the threshold in the direction of the      *)
(* stated rule for every outcome history (fewer than 5 applications lower   *)
(* it, more than 20 raise it, otherwise a response rate below 10% raises    *)
(* and above 40% lowers it), and an analysis of 12 applications with a      *)
(* response rate below 10% emits the low-response-rate insight.             *)
C16_RetuneFollowsStatedRule ==
    [][/\ (last_learner_op' = "tune" /\ learner_steps' # learner_steps
           /\ outcome_analytics # NoOutcomes)
          => /\ StatedDirection(outcome_analytics.outcomes) = "raise"
                => scoring_threshold' >= scoring_threshold
             /\ StatedDirection(outcome_analytics.outcomes) = "lower"
                => scoring_threshold' <= scoring_threshold
             /\ StatedDirection(outcome_analytics.outcomes) = "keep"
                => scoring_threshold' = scoring_threshold
       /\ (last_learner_op' = "analyze" /\ learner_steps' # learner_steps
           /\ outcome_analytics'.outcomes.total = 12
           /\ ResponseRateBelow(outcome_analytics'.outcomes, 10))
          => "low_interview_rate" \in insights']_vars

SumOfWeights(weights) ==
    weights["skill_match"] + weights["experience_match"]
    + weights["salary_match"] + weights["company_quality"]

(* C17: the weights in effect always sum to 1.0: the scorer's weights after *)
(* construction from any triple, and the learner's weights after any        *)
(* retune that changed one.                                                 *)
C17_WeightsSumToOne ==
    /\ scorer_weights.skills + scorer_weights.experience
       + scorer_weights.education = scorer_weights.den
    /\ SumOfWeights(scoring_weights) = WeightScale

(* C18: every scoring weight of the learner stays within [0.1, 0.4], and no *)
(* analysis changes a weight by less than the minimum delta 0.02.           *)
C18_WeightsBoundedAndDamped ==
    /\ [](\A c \in Components :
            /\ weight_floor <= scoring_weights[c]
            /\ scoring_weights[c] <= weight_ceiling)
    /\ [][\A c \in Components :
            scoring_weights'[c] # scoring_weights[c]
            => Abs(scoring_weights'[c] - scoring_weights[c]) >= weight_min_delta]_vars

\* an analysis asked for a change of an already retuned weight, the change
\* was below the minimum delta and was not applied, while another weight
\* was changed
C18_Witness ==
    /\ last_learner_op = "analyze"
    /\ \E c \in Components :
          /\ scoring_weights[c] # InitialWeights[c]
          /\ c \notin outcome_analytics.weight_adjustments
          /\ NewWeight(scoring_weights[c], outcome_analytics.component_analysis[c])
                # scoring_weights[c]
    /\ outcome_analytics.weight_adjustments # {}

\* the threshold history replays from the initial threshold to the current
ThresholdHistoryReplays ==
    /\ threshold_history = <<>> => scoring_threshold = initial_scoring_threshold
    /\ threshold_history # <<>> =>
          /\ threshold_history[1].old_threshold = initial_scoring_threshold
          /\ threshold_history[Len(threshold_history)].new_threshold
                = scoring_threshold
    /\ \A i \in 2..Len(threshold_history) :
          threshold_history[i].old_threshold
             = threshold_history[i - 1].new_threshold

\* every changed weight has a record with the old value, the new value and
\* the reason
WeightChangesRecorded ==
    \A c \in Components :
        scoring_weights[c] # InitialWeights[c]
        => \E i \in DOMAIN activity_log :
              /\ activity_log[i].action = "scoring_adjustment"
              /\ c \in DOMAIN activity_log[i].metadata
              /\ {"old_value", "reason"} \subseteq DOMAIN activity_log[i]

(* C19: every change of the accept threshold and of a scoring weight adds a *)
(* record with the old value, the new value and the reason, and the         *)
(* recorded history replays to the current weights and threshold.           *)
C19_AdjustmentsRecorded ==
    /\ ThresholdHistoryReplays
    /\ WeightChangesRecorded

\* the weight the scorer gives a component of the learner, over the
\* denominator of the pass; -1 for a component the scorer does not weigh
PassWeight(pass, c) ==
    CASE c = "skill_match" -> pass.skills
      [] c = "experience_match" -> pass.experience
      [] OTHER -> -1

(* C20: the scoring pass after a retune filters with the retuned threshold  *)
(* and computes totals with every weight the learner changed since the      *)
(* pass before.                                                             *)
C20_RetunedValuesUsed ==
    [][(last_learner_op' = "score" /\ learner_steps' # learner_steps)
       => /\ last_pass'.threshold = scoring_threshold
          /\ \A c \in retuned :
                PassWeight(last_pass', c) * WeightScale
                   = scoring_weights[c] * last_pass'.den]_vars

(* C21: for every channel of method_stats 0 <= successes <= attempts in     *)
(* every reachable state, and no step of the agent decreases a counter.     *)
C21_StatsMonotone ==
    /\ [](\A m \in Methods :
            /\ 0 <= method_stats[m].successes
            /\ method_stats[m].successes <= method_stats[m].attempts)
    /\ [][\A m \in Methods :
            /\ method_stats'[m].attempts >= method_stats[m].attempts
            /\ method_stats'[m].successes >= method_stats[m].successes]_vars

\* one channel was attempted without success and another one succeeded
C21_Witness ==
    /\ \E m \in Methods :
          method_stats[m].attempts >= 1 /\ method_stats[m].successes = 0
    /\ \E m \in Methods : method_stats[m].successes >= 1

(* C22: when the section texts are empty (a job with an empty description)  *)
(* score_candidate yields similarity 0 for the three sections, a total      *)
(* score of 0 and the classification 'Poor Fit'.                            *)
C22_EmptySectionsScoreZero ==
    section_texts \in {"job_empty", "resume_empty", "both_empty"}
    => /\ section_scores = NoScores
       /\ total_score = 0
       /\ classification = "Poor Fit"

(* C23: the calibration is monotonic over the raw weighted scores of        *)
(* [0, 100], also across the band boundaries at 55 and 70, maps 100 to 100  *)
(* and yields a value in [0, 100].                                          *)
C23_CalibrationMonotonic ==
    weighted_score # -1
    => /\ (prev_weighted_score # -1 /\ prev_weighted_score < weighted_score)
          => prev_total_score <= total_score
       /\ (prev_weighted_score # -1 /\ prev_weighted_score > weighted_score)
          => prev_total_score >= total_score
       /\ weighted_score = 100 * ScoreScale => total_score = 100 * ScoreScale
       /\ 0 <= total_score /\ total_score <= 100 * ScoreScale

\* two calls whose raw scores lie on either side of the band boundary at 55
C23_Witness ==
    /\ prev_weighted_score # -1
    /\ prev_weighted_score < good_band * ScoreScale
    /\ weighted_score >= good_band * ScoreScale
    /\ weighted_score < excellent_band * ScoreScale
    /\ section_texts = "present"

\* the posting at a position of the returned list
Returned(k) == all_jobs[returned_jobs[k]]

\* no two returned postings with the same title and company, or the same
\* non-empty URL, compared without case
NoReturnedDuplicates ==
    \A k1, k2 \in DOMAIN returned_jobs :
        k1 # k2
        => /\ <<Lower(Returned(k1).title), Lower(Returned(k1).company)>>
                 # <<Lower(Returned(k2).title), Lower(Returned(k2).company)>>
           /\ Returned(k1).url # ""
              => Lower(Returned(k1).url) # Lower(Returned(k2).url)

\* the returned postings are in source order
InSourceOrder ==
    \A k1, k2 \in DOMAIN returned_jobs :
        k1 < k2 => returned_jobs[k1] < returned_jobs[k2]

\* posting i is a first occurrence: no earlier posting has its title and
\* company or its non-empty URL, compared without case
FirstOccurrence(i) ==
    \A j \in 1..(i - 1) :
        /\ <<Lower(all_jobs[j].title), Lower(all_jobs[j].company)>>
              # <<Lower(all_jobs[i].title), Lower(all_jobs[i].company)>>
        /\ all_jobs[i].url # "" => Lower(all_jobs[j].url) # Lower(all_jobs[i].url)

(* C24: the list scrape_jobs returns has no two postings with the same      *)
(* (title, company) and no two with the same non-empty URL, compared        *)
(* without case, keeps the first occurrence of each posting in source       *)
(* order, and has at most max_results entries.                              *)
C24_DeduplicatedFirstKept ==
    scrape_pc = "returned"
    => /\ NoReturnedDuplicates
       /\ InSourceOrder
       /\ Len(returned_jobs) <= max_results
       /\ Len(returned_jobs) < max_results
          => \A i \in DOMAIN all_jobs :
                FirstOccurrence(i) => \E k \in DOMAIN returned_jobs : returned_jobs[k] = i

(* C25: whenever a cycle of SupervisorAgent or EnhancedSupervisorAgent ends *)
(* (completed, ended early or failed) the run-in-progress flag is cleared,  *)
(* so that the flag is clear whenever no cycle is active and a later        *)
(* trigger is accepted; a trigger rejected as busy leaves the flag of the   *)
(* active cycle set.                                                        *)
C25_FlagClearedAtCycleEnd ==
    /\ []((\A t \in Triggers : wpc[t] \notin InWorkflow) => ~workflow_running)
    /\ []((\A th \in Threads : epc[th] # "running") => ~is_running)
    /\ [][/\ \A t \in Triggers :
               /\ (wpc[t] \in InWorkflow /\ wpc'[t] \notin InWorkflow)
                  => ~workflow_running'
               /\ (wresult'[t] = "busy" /\ wresult[t] # "busy")
                  => (workflow_running /\ workflow_running')
          /\ \A th \in Threads :
               /\ (epc[th] = "running" /\ epc'[th] # "running") => ~is_running'
               /\ (epc[th] = "started" /\ epc'[th] = "idle")
                  => (is_running /\ is_running')]_vars

\* a trigger was rejected as busy while the cycle of another one is active,
\* and a rejected thread of the enhanced supervisor has returned while a
\* workflow runs there
C25_Witness ==
    /\ wresult["request"] = "busy"
    /\ wpc["auto_mode_loop"] \in InWorkflow
    /\ workflow_running
    /\ epc["scheduler"] = "running"
    /\ epc["manual"] = "idle"
    /\ is_running

(* C26: for a given user and job at most one successful application is ever *)
(* submitted: no two passes hold a successful result for the same job, no   *)
(* pass succeeds for a job that has a record from another pass, and no job  *)
(* has two records.                                                         *)
C26_AtMostOneSuccessPerJob ==
    /\ \A c1, c2 \in Callers :
          (c1 # c2 /\ application_result[c1].success
           /\ application_result[c2].success)
          => job[c1].id # job[c2].id
    /\ \A c \in Callers :
          application_result[c].success
          => Cardinality({k \in DOMAIN job_applications :
                             job_applications[k].job_id = job[c].id})
                <= recorded[c]
    /\ \A k1, k2 \in DOMAIN job_applications :
          k1 # k2 => job_applications[k1].job_id # job_applications[k2].job_id

(* C27: after any sequence of start and stop calls at most one background   *)
(* loop of the supervisor is alive and triggering cycles.                   *)
C27_SingleBackgroundLoop ==
    Cardinality({l \in Loops : loop_pc[l] \in {"waiting", "cycle"}}) <= 1

(* C28: the lifecycle table is acyclic: a sequence of standard transitions  *)
(* from 'applied' visits no status twice and has at most 5 transitions, and *)
(* a sequence that cannot be continued ends in rejected, withdrawn,         *)
(* offer_accepted or offer_declined.                                        *)
C28_LifecycleAcyclic ==
    \A a \in Tracked :
        /\ \A k1, k2 \in DOMAIN lifecycle[a] :
              k1 # k2 => lifecycle[a][k1] # lifecycle[a][k2]
        /\ Len(lifecycle[a]) - 1 <= 5
        /\ (~ \E st \in Statuses : InTable(CurrentStatus(a), st))
           => CurrentStatus(a) \in TerminalStatuses

\* one application went the longest way to an accepted offer, another one
\* was rejected at once
C28_Witness ==
    \E a1, a2 \in Tracked :
        /\ lifecycle[a1] = <<"applied", "interview", "second_interview",
                             "final_interview", "accepted", "offer_accepted">>
        /\ lifecycle[a2] = <<"applied", "rejected">>


(***************************************************************************)
(* Properties of the search result cache                                   *)
(***************************************************************************)

\* C29: trigger_job_search answers from the cache only with a result that was
\* produced by a request with the same search criteria and that is younger
\* than max_cache_age; two /workflow/trigger requests with different
\* search_query values never share a cached result
C29_CachedResultSameCriteria ==
    search_response.kind = "cached" =>
        /\ search_response.result.searched = search_response.search_params
        /\ search_response.result.age < max_cache_age


(***************************************************************************)
(* Properties of retry_failed_task                                         *)
(***************************************************************************)

====
